---- MODULE Spec2Model ----
(***************************************************************************)
(* HiSim: the component hooks of src/hisim/components (state commit and    *)
(* restore, evaluation, doublecheck), the timestep driver that calls them  *)
(* and the graph builder that wires them.                                  *)
(*                                                                         *)
(* Temperatures are whole degrees Celsius, powers whole watts; floating    *)
(* point divisions of the source are integer divisions here.               *)
(***************************************************************************)
EXTENDS Integers, Sequences, FiniteSets, TLC

(***************************************************************************)
(* Bounds of the model.                                                    *)
(***************************************************************************)
\* number of timesteps of one run
MaxTimestep == 2
\* the configured maximum of Iterate passes per timestep
IterationCap == 4
\* hook calls per component in the hook harness
MaxHookCalls == 4
\* evaluations of the heat pump one after the other
MaxHeatPumpCalls == 8
\* calls made on one ElectricityGrid or CalculateOperation, inputs connected
\* to it, and length of a list handed to connect_all
MaxGridCalls == 3
MaxGridInputs == 3
MaxListLength == 3
\* components registered and explicit connections made in one assembly
MaxRegistered == 3
MaxConnections == 4
\* components constructed while one run is assembled, and runs assembled one
\* after the other in one process
MaxConstructed == 4
MaxRuns == 2

(***************************************************************************)
(* Run parameters and component configuration.                             *)
(***************************************************************************)
seconds_per_timestep == 300
time_on_min == 600
\* HeatDistributionController.build
set_heating_threshold_temperature_in_celsius == 16
\* GasHeaterController(...) as built in the gas heater household
set_heating_temperature_residence_in_celsius == 18
set_temperature_water_boiler_in_celsius == 50
offset == 1
\* GasHeaterWithController.__init__ and its default configuration
initial_temperature_water_boiler_in_celsius == 35
maximal_thermal_power_in_watt == 12000
specific_heat_capacity_of_water == 4184
battery_capacity_in_joule == 1500000

\* the component objects of the model
HDC == "HeatDistributionController"
HD  == "HeatDistribution"
GHC == "GasHeaterController"
GH  == "GasHeaterWithController"
SUM == "SumBuilderForTwoInputs"
SUM3 == "SumBuilderForThreeInputs"
CALC == "CalculateOperation"
EG  == "ElectricityGrid"
BAT == "Battery"
HP  == "HeatPumpHplib"
HPL1 == "HeatPumpHplibControllerL1"
HWS == "HeatingWaterStorage"
L2C == "L2_Controller"
\* components of the repository whose code is not part of src/
WEA == "Weather"
BLD == "Building"
BOILER == "Boiler"
L1C == "L1_Controller"

VARIABLES
    comp,       \* the component objects: their fields, by component
    hook,       \* hook harness: what each component's last hook calls were
    registered, \* the registered components, in registration order
    explicit,   \* the explicit connections the assembling caller made
    built,      \* the Graph Builder's result
    run,        \* the Timestep Driver: timestep, phase, position, configuration
    slab,       \* the Value Slab: one value per declared Output
    previous_slab, \* the slab as the previous Iterate pass left it
    ghost,      \* history of the current timestep: hook calls and values seen
    singleton_sim_repository, \* the Shared Context Store: key -> entry
    process     \* the runs assembled in this process: constructions and outcomes

(***************************************************************************)
(* The Shared Context Store, SingletonSimRepository.                       *)
(***************************************************************************)
MAXTHERMALBUILDINGDEMAND == "MAXTHERMALBUILDINGDEMAND"
WATERMASSFLOWRATEOFHEATINGDISTRIBUTIONSYSTEM == "WATERMASSFLOWRATEOFHEATINGDISTRIBUTIONSYSTEM"
HEATINGSYSTEM == "HEATINGSYSTEM"
SETHEATINGTEMPERATUREFORBUILDING == "SETHEATINGTEMPERATUREFORBUILDING"
SETCOOLINGTEMPERATUREFORBUILDING == "SETCOOLINGTEMPERATUREFORBUILDING"

SingletonDictKeyEnum ==
    { MAXTHERMALBUILDINGDEMAND, WATERMASSFLOWRATEOFHEATINGDISTRIBUTIONSYSTEM,
      HEATINGSYSTEM, SETHEATINGTEMPERATUREFORBUILDING,
      SETCOOLINGTEMPERATUREFORBUILDING }

\* HeatingSystemType
RADIATOR == 1
FLOORHEATING == 2

EmptyStore == << >>

\* what a failed get hands back: nothing
NoEntry == -1

exist_entry(store, key) == key \in DOMAIN store

\* one operation on the store, as the log of the process keeps it
StoreOp(op, key, value, raised) ==
    [op |-> op, key |-> key, value |-> value, raised |-> raised]

\* get(key): an error if the key is unset
get_entry(store, key) ==
    IF key \in DOMAIN store
    THEN [value |-> store[key], raised |-> FALSE]
    ELSE [value |-> NoEntry, raised |-> TRUE]

\* a store whose set silently replaces the entry (sensitivity variant)
set_entry_Overwriting(store, key, entry) ==
    [store |-> [k \in DOMAIN store \cup {key} |->
                    IF k = key THEN entry ELSE store[k]],
     raised |-> FALSE]

\* set(key, entry): an error if the key is already set
set_entry(store, key, entry) ==
    IF key \in DOMAIN store
    THEN [store |-> store, raised |-> TRUE]
    ELSE [store |-> [k \in DOMAIN store \cup {key} |->
                        IF k = key THEN entry ELSE store[k]],
          raised |-> FALSE]

\* the outcome of a constructor: the store it leaves, whether it raised,
\* and the store operations it made
Constructed(store, raised, ops) == [store |-> store, raised |-> raised, ops |-> ops]

\* two set_entry calls in a row; the second is not reached when the first raises
SetTwo(store, ops, key1, entry1, key2, entry2) ==
    LET r1 == set_entry(store, key1, entry1)
        o1 == Append(ops, StoreOp("set", key1, entry1, r1.raised))
        r2 == set_entry(r1.store, key2, entry2)
        o2 == Append(o1, StoreOp("set", key2, entry2, r2.raised))
    IN IF r1.raised THEN Constructed(r1.store, TRUE, o1)
       ELSE Constructed(r2.store, r2.raised, o2)

\* the Building publishes its maximal thermal demand
Building_init(store, max_thermal_building_demand_in_watt) ==
    LET r == set_entry(store, MAXTHERMALBUILDINGDEMAND, max_thermal_building_demand_in_watt)
    IN Constructed(r.store, r.raised,
                   << StoreOp("set", MAXTHERMALBUILDINGDEMAND,
                              max_thermal_building_demand_in_watt, r.raised) >>)

delta_temperature_in_celsius(heating_system) ==
    IF heating_system = FLOORHEATING THEN 3 ELSE 20

\* water mass flow of the heat distribution system, in g per second
calc_heating_distribution_system_water_mass_flow_rate(max_demand_in_watt, heating_system) ==
    (max_demand_in_watt * 1000)
        \div (specific_heat_capacity_of_water * delta_temperature_in_celsius(heating_system))

\* a HeatDistribution that falls back to a demand of 0 when the key is
\* unset (sensitivity variant)
HeatDistribution_init_DefaultDemand(store, heating_system) ==
    LET demand == IF exist_entry(store, MAXTHERMALBUILDINGDEMAND)
                  THEN store[MAXTHERMALBUILDINGDEMAND] ELSE 0
    IN SetTwo(store, << StoreOp("get", MAXTHERMALBUILDINGDEMAND, demand, FALSE) >>,
              WATERMASSFLOWRATEOFHEATINGDISTRIBUTIONSYSTEM,
              calc_heating_distribution_system_water_mass_flow_rate(demand, heating_system),
              HEATINGSYSTEM, heating_system)

\* HeatDistribution.__init__: reads the Building's demand, publishes its
\* water mass flow and its heating system
HeatDistribution_init(store, heating_system) ==
    IF exist_entry(store, MAXTHERMALBUILDINGDEMAND)
    THEN LET g == get_entry(store, MAXTHERMALBUILDINGDEMAND)
         IN SetTwo(store, << StoreOp("get", MAXTHERMALBUILDINGDEMAND, g.value, g.raised) >>,
                   WATERMASSFLOWRATEOFHEATINGDISTRIBUTIONSYSTEM,
                   calc_heating_distribution_system_water_mass_flow_rate(g.value, heating_system),
                   HEATINGSYSTEM, heating_system)
    ELSE Constructed(store, TRUE,
                     << StoreOp("get", MAXTHERMALBUILDINGDEMAND, NoEntry, TRUE) >>)

\* HeatDistributionController.__init__: publishes its set temperatures
HeatDistributionController_init(store, set_heating_temperature, set_cooling_temperature) ==
    SetTwo(store, << >>,
           SETHEATINGTEMPERATUREFORBUILDING, set_heating_temperature,
           SETCOOLINGTEMPERATUREFORBUILDING, set_cooling_temperature)

\* no component has been constructed in this process
NoProcess ==
    [ run |-> 1, constructed |-> << >>, raised |-> FALSE, log |-> << >>,
      alone |-> EmptyStore, raised_alone |-> FALSE ]

repository == <<singleton_sim_repository, process>>

NoRepository ==
    /\ singleton_sim_repository = EmptyStore
    /\ process = NoProcess

(***************************************************************************)
(* HeatDistributionController                                              *)
(***************************************************************************)
HDC_init ==
    [ controller_heat_distribution_mode |-> "off",
      previous_controller_heat_distribution_mode |-> "off",
      state_controller |-> 0 ]

HDC_i_save_state(self) ==
    [self EXCEPT !.previous_controller_heat_distribution_mode =
                      self.controller_heat_distribution_mode]

\* the source assigns the current mode to itself
HDC_i_restore_state(self) ==
    [self EXCEPT !.controller_heat_distribution_mode =
                      self.controller_heat_distribution_mode]

\* a controller that shuts the heat distribution as soon as there is no
\* demand, whatever the outside temperature (sensitivity variant)
HDC_conditions_OnDemandOnly(mode, demand, avg_outside) ==
    IF demand = 0 THEN "off" ELSE "on"

HDC_conditions_for_opening_or_shutting_heat_distribution(mode, demand, avg_outside) ==
    IF mode = "on"
    THEN IF demand = 0 /\ avg_outside > set_heating_threshold_temperature_in_celsius
         THEN "off" ELSE "on"
    ELSE IF demand # 0 \/ avg_outside < set_heating_threshold_temperature_in_celsius
         THEN "on" ELSE "off"

\* DIN V 4701-10 flow temperature for floor heating [35, 28], room set
\* temperature 20, reference outside temperature -14; the exponent 1/1.1 of
\* the source is taken as 1
HDC_calc_heat_distribution_flow_temperature(avg_outside) ==
    20 + ((20 - avg_outside) * (35 - 20)) \div (20 - (-14))

\* a controller that skips its computation in every pass, not only when
\* force_convergence is true (sensitivity variant)
HDC_i_simulate_SkippingEveryPass(self, in, force_convergence) ==
    [self |-> self, out |-> <<>>, raised |-> FALSE]

HDC_i_simulate(self, in, force_convergence) ==
    IF force_convergence
    THEN [self |-> self, out |-> <<>>, raised |-> FALSE]
    ELSE LET mode == HDC_conditions_for_opening_or_shutting_heat_distribution(
                         self.controller_heat_distribution_mode,
                         in.TheoreticalThermalBuildingDemand,
                         in.DailyAverageOutsideTemperature)
             sc == IF mode = "on" THEN 1 ELSE 0
         IN [ self |-> [self EXCEPT !.controller_heat_distribution_mode = mode,
                                    !.state_controller = sc],
              out |-> [ State |-> sc,
                        HeatingFlowTemperature |->
                            HDC_calc_heat_distribution_flow_temperature(
                                in.DailyAverageOutsideTemperature) ],
              raised |-> FALSE ]

(***************************************************************************)
(* HeatDistribution                                                        *)
(***************************************************************************)
\* max_demand_in_watt: the entry MAXTHERMALBUILDINGDEMAND the constructor reads
HD_init(max_demand_in_watt, heating_system) ==
    [ thermal_power_delivered_in_watt |-> 0,
      water_temperature_output_in_celsius |-> 21,
      heating_distribution_system_water_mass_flow_rate_in_g_per_second |->
          calc_heating_distribution_system_water_mass_flow_rate(max_demand_in_watt,
                                                                 heating_system) ]

HD_i_save_state(self) == self

HD_i_restore_state(self) == self

\* a heat exchange that never limits the water temperature by the residence
\* temperature (sensitivity variant)
HD_determine_Unlimited(mass_flow, water_in, demand, residence) ==
    LET out == water_in - (demand * 1000) \div (mass_flow * specific_heat_capacity_of_water)
    IN << out, (specific_heat_capacity_of_water * mass_flow * (water_in - out)) \div 1000 >>

\* determine_water_temperature_output_after_heat_exchange_with_building_and_
\* effective_thermal_power: <<water temperature output, thermal power
\* delivered>>; mass_flow in g per second, so that Tout = Tin - Q / (c * m)
\* is Tin - 1000 Q / (c * mass_flow)
HD_determine(mass_flow, water_in, demand, residence) ==
    LET t_out == water_in - (demand * 1000) \div (mass_flow * specific_heat_capacity_of_water)
        power(out) == (specific_heat_capacity_of_water * mass_flow * (water_in - out)) \div 1000
        heated == IF t_out > residence THEN t_out ELSE residence
        cooled == IF t_out < residence THEN t_out ELSE residence
    IN IF demand > 0
       THEN IF water_in > residence THEN << heated, power(heated) >>
            ELSE << water_in, 0 >>
       ELSE IF demand < 0
       THEN IF water_in < residence THEN << cooled, power(cooled) >>
            ELSE << water_in, 0 >>
       ELSE << water_in, 0 >>

\* a state other than 0 and 1 raises ValueError, a mass flow of zero
\* ZeroDivisionError, each before anything is written
HD_i_simulate(self, in, force_convergence) ==
    IF force_convergence
    THEN [self |-> self, out |-> <<>>, raised |-> FALSE]
    ELSE LET mass_flow ==
                 self.heating_distribution_system_water_mass_flow_rate_in_g_per_second
             r == IF in.State = 1
                  THEN HD_determine(mass_flow, in.WaterTemperatureInput,
                                    in.TheoreticalThermalBuildingDemand,
                                    in.ResidenceTemperatureIndoorAir)
                  ELSE << in.WaterTemperatureInput, 0 >>
         IN IF in.State \notin {0, 1} \/ (in.State = 1 /\ mass_flow = 0)
            THEN [self |-> self, out |-> <<>>, raised |-> TRUE]
            ELSE [ self |-> [self EXCEPT !.water_temperature_output_in_celsius = r[1],
                                         !.thermal_power_delivered_in_watt = r[2]],
                   out |-> [ WaterTemperatureOutput |-> r[1],
                             ThermalPowerDelivered |-> r[2] ],
                   raised |-> FALSE ]

(***************************************************************************)
(* GasHeaterController                                                     *)
(***************************************************************************)
GHC_init ==
    [ controller_gas_valve_mode |-> "close",
      previous_controller_gas_valve_mode |-> "close",
      state_controller |-> 0 ]

\* a commit hook that forgets to copy the mode (sensitivity variant)
GHC_i_save_state_Skipped(self) == self

GHC_i_save_state(self) ==
    [self EXCEPT !.previous_controller_gas_valve_mode = self.controller_gas_valve_mode]

GHC_i_restore_state(self) ==
    [self EXCEPT !.controller_gas_valve_mode = self.previous_controller_gas_valve_mode]

GHC_conditions_for_opening_or_shutting_gas_valve(mode, residence, boiler) ==
    LET m1 == IF mode = "open"
                 /\ ( residence >= set_heating_temperature_residence_in_celsius - offset
                      \/ boiler >= set_temperature_water_boiler_in_celsius - offset )
              THEN "close" ELSE mode
    IN IF mode = "open"
       THEN m1
       ELSE IF mode = "close"
            THEN IF residence < set_heating_temperature_residence_in_celsius
                    /\ boiler < set_temperature_water_boiler_in_celsius
                 THEN "open" ELSE "close"
            ELSE mode

GHC_i_simulate(self, in, force_convergence) ==
    LET mode == IF force_convergence
                THEN self.controller_gas_valve_mode
                ELSE GHC_conditions_for_opening_or_shutting_gas_valve(
                         self.controller_gas_valve_mode,
                         in.ResidenceTemperature,
                         in.WaterBoilerTemperatureInput)
        sc == IF mode = "open" THEN 1
              ELSE IF mode = "close" THEN 0 ELSE self.state_controller
    IN [ self |-> [self EXCEPT !.controller_gas_valve_mode = mode,
                               !.state_controller = sc],
         out |-> [ State |-> sc ],
         raised |-> FALSE ]

(***************************************************************************)
(* Battery                                                                 *)
(***************************************************************************)
BAT_init == [ state |-> [soc |-> 0], previous_state |-> [soc |-> 0] ]

BAT_i_save_state(self) == [self EXCEPT !.previous_state = self.state]

BAT_i_restore_state(self) == [self EXCEPT !.state = self.previous_state]

\* BAT.simulate(p_load, soc, dt) of bslib: <<p_bs, p_bat, soc>>. The battery
\* takes the load it is given; its state of charge, in percent of
\* battery_capacity_in_joule, moves by the energy of the timestep
BAT_simulate(p_load, soc, dt) ==
    LET moved == soc + (p_load * dt * 100) \div battery_capacity_in_joule
        new_soc == IF moved > 100 THEN 100 ELSE IF moved < 0 THEN 0 ELSE moved
    IN << p_load, p_load, new_soc >>

\* results = BAT.simulate(p_load, soc, dt) of bslib: <<p_bs, p_bat, soc>>
BAT_i_simulate(self, in, results, force_convergence) ==
    [ self |-> [self EXCEPT !.state.soc = results[3]],
      out |-> [ AcBatteryPower |-> results[1],
                DcBatteryPower |-> results[2],
                StateOfCharge |-> results[3] ],
      raised |-> FALSE ]

(***************************************************************************)
(* HeatPumpHplib                                                           *)
(***************************************************************************)
HeatPumpState(time_on, time_off, time_on_cooling, on_off_previous) ==
    [ time_on |-> time_on, time_off |-> time_off,
      time_on_cooling |-> time_on_cooling, on_off_previous |-> on_off_previous ]

HP_init ==
    [ state |-> HeatPumpState(0, 0, 0, 0),
      previous_state |-> HeatPumpState(0, 0, 0, 0) ]

HP_i_save_state(self) == [self EXCEPT !.previous_state = self.state]

HP_i_restore_state(self) == [self EXCEPT !.state = self.previous_state]

\* results = hpl.simulate(...) of hplib, read only when the pump runs
HP_i_simulate(self, in, results, force_convergence) ==
    IF force_convergence
    THEN [self |-> self, out |-> <<>>, raised |-> FALSE]
    ELSE LET st == self.state
             on_off ==
                 IF st.on_off_previous = 1 /\ st.time_on < time_on_min THEN 1
                 ELSE IF st.on_off_previous = -1 /\ st.time_on_cooling < time_on_min THEN -1
                 ELSE IF st.on_off_previous = 0 /\ st.time_off < time_on_min THEN 0
                 ELSE in.OnOffSwitch
             time_on == IF on_off = 1 THEN st.time_on + seconds_per_timestep
                        ELSE IF on_off = -1 THEN st.time_on ELSE 0
             time_on_cooling == IF on_off = -1
                                THEN st.time_on_cooling + seconds_per_timestep
                                ELSE st.time_on_cooling
             time_off == IF on_off \in {1, -1} THEN 0
                         ELSE st.time_off + seconds_per_timestep
             running == on_off \in {1, -1}
         IN [ self |-> [self EXCEPT !.state =
                            HeatPumpState(time_on, time_off, time_on_cooling, on_off)],
              out |-> [ ThermalOutputPower |-> IF running THEN results.P_th ELSE 0,
                        ElectricalInputPower |-> IF running THEN results.P_el ELSE 0,
                        COP |-> IF running THEN results.COP ELSE 0,
                        EER |-> IF running THEN results.EER ELSE 0,
                        TemperatureOutput |-> IF running THEN results.T_out
                                              ELSE in.TemperatureInputSecondary,
                        MassFlowOutput |-> IF running THEN results.m_dot ELSE 0,
                        TimeOn |-> time_on,
                        TimeOff |-> time_off ],
              raised |-> FALSE ]

(***************************************************************************)
(* HeatingWaterStorage (simple_heat_water_storage.py).  Temperatures of    *)
(* the state are in degrees Celsius; the temperatures the evaluation       *)
(* computes are kept in thousandths of a degree, rounded down, where the   *)
(* code keeps floats.                                                      *)
(***************************************************************************)
HWSConfig_default ==
    [ mean_water_temperature_in_storage_in_celsius |-> 50,
      cool_water_temperature_in_storage_in_celsius |-> 50,
      hot_water_temperature_in_storage_in_celsius |-> 50,
      volume_heating_water_storage_in_liter |-> 500 ]

HeatingWaterStorageState(start_timestep, mean, cool, hot) ==
    [ start_timestep |-> start_timestep,
      mean_water_temperature_in_storage_in_celsius |-> mean,
      cool_water_temperature_in_celsius |-> cool,
      hot_water_temperature_in_celsius |-> hot ]

\* __init__ and build: water_mass_in_storage_in_kg = 0.98 * volume; the
\* attributes i_simulate assigns start at 0
HWS_init(config) ==
    LET state == HeatingWaterStorageState(0,
                     config.mean_water_temperature_in_storage_in_celsius,
                     config.cool_water_temperature_in_storage_in_celsius,
                     config.hot_water_temperature_in_storage_in_celsius)
    IN [ waterstorageconfig |-> config,
         state |-> state,
         previous_state |-> state,
         water_mass_in_storage_in_kg |->
             (98 * config.volume_heating_water_storage_in_liter) \div 100,
         mean_water_temperature_in_water_storage |-> 0 ]

HWS_i_save_state(self) == [self EXCEPT !.previous_state = self.state]

HWS_i_restore_state(self) == [self EXCEPT !.state = self.previous_state]

\* in thousandths of a degree
HWS_calculate_mean_water_temperature_in_water_storage(t_hds, t_gen, m_gen, m_hds, water_mass, previous_mean, seconds) ==
    LET mass_gen == m_gen * seconds
        mass_hds == m_hds * seconds
    IN (1000 * (water_mass * previous_mean + mass_gen * t_gen + mass_hds * t_hds))
         \div (water_mass + mass_gen + mass_hds)

\* <<storage portion, input portion>> in 3600ths; [raised] for a negative
\* number of seconds
HWS_calculate_mixing_factor_for_water_temperature_outputs(seconds) ==
    IF 0 <= seconds /\ seconds <= 3600
    THEN [ factors |-> <<seconds, 3600 - seconds>>, raised |-> FALSE ]
    ELSE IF seconds > 3600
    THEN [ factors |-> <<3600, 0>>, raised |-> FALSE ]
    ELSE [ factors |-> << >>, raised |-> TRUE ]

\* in thousandths of a degree
HWS_calculate_water_output_temperature(mean, storage_portion, input_portion, water_input_temperature) ==
    (input_portion * 1000 * water_input_temperature + storage_portion * mean)
      \div 3600

\* the evaluation with the state update that the source has commented out
\* (sensitivity variant)
HWS_i_simulate_UpdatingState(self, in, timestep, force_convergence) ==
    LET mean == HWS_calculate_mean_water_temperature_in_water_storage(
                    in.WaterTemperatureFromHeatDistributionSystem,
                    in.WaterTemperaturefromHeatGenerator,
                    in.WaterMassFlowRateFromHeatGenerator,
                    in.WaterMassFlowRateFromHeatDistributionSystem,
                    self.water_mass_in_storage_in_kg,
                    self.state.mean_water_temperature_in_storage_in_celsius,
                    seconds_per_timestep)
        mix == HWS_calculate_mixing_factor_for_water_temperature_outputs(
                   seconds_per_timestep)
    IN [ self |-> [self EXCEPT
                     !.mean_water_temperature_in_water_storage = mean,
                     !.state = HeatingWaterStorageState(timestep, mean \div 1000,
                                   in.WaterTemperatureFromHeatDistributionSystem,
                                   in.WaterTemperaturefromHeatGenerator)],
         out |-> [ WaterTemperatureToHeatDistributionSystem |->
                       HWS_calculate_water_output_temperature(mean,
                           mix.factors[1], mix.factors[2],
                           in.WaterTemperatureFromHeatDistributionSystem),
                   WaterTemperatureToHeatGenerator |->
                       HWS_calculate_water_output_temperature(mean,
                           mix.factors[1], mix.factors[2],
                           in.WaterTemperaturefromHeatGenerator) ],
         raised |-> FALSE ]

\* i_simulate: the same in a final pass; self.state is read, never assigned
HWS_i_simulate(self, in, timestep, force_convergence) ==
    LET mean == HWS_calculate_mean_water_temperature_in_water_storage(
                    in.WaterTemperatureFromHeatDistributionSystem,
                    in.WaterTemperaturefromHeatGenerator,
                    in.WaterMassFlowRateFromHeatGenerator,
                    in.WaterMassFlowRateFromHeatDistributionSystem,
                    self.water_mass_in_storage_in_kg,
                    self.state.mean_water_temperature_in_storage_in_celsius,
                    seconds_per_timestep)
        s1 == [self EXCEPT !.mean_water_temperature_in_water_storage = mean]
        mix == HWS_calculate_mixing_factor_for_water_temperature_outputs(
                   seconds_per_timestep)
    IN IF mix.raised
       THEN [ self |-> s1, out |-> << >>, raised |-> TRUE ]
       ELSE [ self |-> s1,
              out |-> [ WaterTemperatureToHeatDistributionSystem |->
                            HWS_calculate_water_output_temperature(mean,
                                mix.factors[1], mix.factors[2],
                                in.WaterTemperatureFromHeatDistributionSystem),
                        WaterTemperatureToHeatGenerator |->
                            HWS_calculate_water_output_temperature(mean,
                                mix.factors[1], mix.factors[2],
                                in.WaterTemperaturefromHeatGenerator) ],
              raised |-> FALSE ]

(***************************************************************************)
(* HeatPumpHplibControllerL1                                               *)
(***************************************************************************)
\* mode: the configured mode; only 1 (on/off) is implemented
L1_init(mode) ==
    [ mode |-> mode, controller_heatpumpmode |-> "off", previous_heatpump_mode |-> "off" ]

L1_i_save_state(self) ==
    [self EXCEPT !.previous_heatpump_mode = self.controller_heatpumpmode]

L1_i_restore_state(self) ==
    [self EXCEPT !.controller_heatpumpmode = self.previous_heatpump_mode]

L1_conditions_on_off(mode, water_temperature_input, set_heating_flow_temperature) ==
    IF mode = "on"
    THEN IF water_temperature_input > set_heating_flow_temperature THEN "off" ELSE "on"
    ELSE IF water_temperature_input < set_heating_flow_temperature THEN "on" ELSE "off"

\* a controller that computes and writes in the Finalize pass as well
\* (sensitivity variant)
L1_i_simulate_InEveryPass(self, in, force_convergence) ==
    LET mode == L1_conditions_on_off(
                    self.controller_heatpumpmode,
                    in.WaterTemperatureInputFromHeatWaterStorage,
                    in.HeatingFlowTemperatureFromHeatDistributionSystem)
    IN [ self |-> [self EXCEPT !.controller_heatpumpmode = mode],
         out |-> [ State |-> IF mode = "on" THEN 1 ELSE 0 ],
         raised |-> FALSE ]

\* a configured mode other than 1 raises ValueError
L1_i_simulate(self, in, force_convergence) ==
    IF force_convergence
    THEN [self |-> self, out |-> <<>>, raised |-> FALSE]
    ELSE IF self.mode # 1
    THEN [self |-> self, out |-> <<>>, raised |-> TRUE]
    ELSE LET mode == L1_conditions_on_off(
                         self.controller_heatpumpmode,
                         in.WaterTemperatureInputFromHeatWaterStorage,
                         in.HeatingFlowTemperatureFromHeatDistributionSystem)
         IN [ self |-> [self EXCEPT !.controller_heatpumpmode = mode],
              out |-> [ State |-> IF mode = "on" THEN 1 ELSE 0 ],
              raised |-> FALSE ]

(***************************************************************************)
(* L2_Controller                                                           *)
(***************************************************************************)
\* L2Config: get_default_config_heating with a short year, and
\* get_default_config_waterheating
L2Config_heating ==
    [ T_min_heating |-> 20, T_max_heating |-> 22, T_tolerance |-> 1,
      P_threshold |-> 1500, cooling_considered |-> TRUE,
      T_min_cooling |-> 23, T_max_cooling |-> 25,
      heating_season_begin |-> 3, heating_season_end |-> 0 ]

L2Config_waterheating ==
    [ T_min_heating |-> 50, T_max_heating |-> 80, T_tolerance |-> 5,
      P_threshold |-> 1500, cooling_considered |-> FALSE,
      T_min_cooling |-> 0, T_max_cooling |-> 0,
      heating_season_begin |-> 0, heating_season_end |-> 0 ]

L2_ControllerState(timestep_actual, state, compulsory, count) ==
    [ timestep_actual |-> timestep_actual, state |-> state,
      compulsory |-> compulsory, count |-> count ]

L2S_is_first_iteration(s, timestep) == s.timestep_actual + 1 = timestep

L2S_first_iteration(s, timestep) ==
    IF L2S_is_first_iteration(s, timestep)
    THEN [s EXCEPT !.timestep_actual = @ + 1, !.compulsory = 0, !.count = 0]
    ELSE s

L2S_is_compulsory(s) == [s EXCEPT !.compulsory = IF s.count <= 1 THEN 0 ELSE 1]

L2S_activate(s) == [s EXCEPT !.state = 1, !.compulsory = 1, !.count = @ + 1]

L2S_deactivate(s) == [s EXCEPT !.state = 0, !.compulsory = 1, !.count = @ + 1]

\* config: the L2Config; wired: ElectricityTarget has a source output;
\* predictive: system_config.predictive
L2_init(config, wired, predictive) ==
    [ config |-> config, wired |-> wired, predictive |-> predictive,
      state |-> L2_ControllerState(-1, 0, 0, 0),
      previous_state |-> L2_ControllerState(-1, 0, 0, 0) ]

L2_i_save_state(self) == [self EXCEPT !.previous_state = self.state]

L2_i_restore_state(self) == [self EXCEPT !.state = self.previous_state]

\* a controller that keeps a compulsory state whatever the temperature
\* (sensitivity variant)
L2_control_heating_CompulsoryFirst(self, T_control, T_min_heating, T_max_heating, l3state) ==
    IF self.state.compulsory = 1 THEN self
    ELSE IF T_control > T_max_heating
    THEN [self EXCEPT !.state = L2S_deactivate(@),
                      !.previous_state = L2S_deactivate(@)]
    ELSE IF T_control < T_min_heating
    THEN [self EXCEPT !.state = L2S_activate(@),
                      !.previous_state = L2S_activate(@)]
    ELSE [self EXCEPT !.state.state = l3state]

L2_control_heating(self, T_control, T_min_heating, T_max_heating, l3state) ==
    IF T_control > T_max_heating
    THEN [self EXCEPT !.state = L2S_deactivate(@),
                      !.previous_state = L2S_deactivate(@)]
    ELSE IF T_control < T_min_heating
    THEN [self EXCEPT !.state = L2S_activate(@),
                      !.previous_state = L2S_activate(@)]
    ELSE IF self.state.compulsory = 1 THEN self
    ELSE IF self.wired THEN [self EXCEPT !.state.state = l3state]
    ELSE [self EXCEPT !.state = self.previous_state]

L2_control_cooling(self, T_control, T_min_cooling, T_max_cooling, l3state) ==
    IF T_control > T_max_cooling
    THEN [self EXCEPT !.state = L2S_activate(@),
                      !.previous_state = L2S_activate(@)]
    ELSE IF T_control < T_min_cooling
    THEN [self EXCEPT !.state = L2S_deactivate(@),
                      !.previous_state = L2S_deactivate(@)]
    ELSE IF self.state.compulsory = 1 THEN self
    ELSE IF self.wired THEN [self EXCEPT !.state.state = l3state]
    ELSE [self EXCEPT !.state = self.previous_state]

\* Without a source for ElectricityTarget the source reads self.T_max_cooling,
\* which build() sets only with cooling_considered, and then passes l3state,
\* which was never assigned: the call raises after is_first_iteration.
L2_i_simulate(self, in, timestep, force_convergence) ==
    IF force_convergence
    THEN [self |-> self, out |-> <<>>, raised |-> FALSE]
    ELSE
    LET cfg == self.config
        RunTimeSignal == IF self.predictive THEN in.l1_RunTimeSignal ELSE 0
        l3state == IF in.ElectricityTarget >= cfg.P_threshold THEN 1 ELSE 0
        T_max_heating ==
            IF ~self.wired THEN cfg.T_max_heating
            ELSE IF l3state = 1
                 THEN IF RunTimeSignal > 0
                      THEN cfg.T_max_heating + cfg.T_tolerance
                      ELSE (cfg.T_min_heating + cfg.T_max_heating) \div 2
                 ELSE cfg.T_max_heating
        T_min_heating ==
            IF self.wired /\ l3state = 0
            THEN cfg.T_min_heating - cfg.T_tolerance
            ELSE cfg.T_min_heating
        T_max_cooling ==
            IF self.wired /\ l3state = 0
            THEN cfg.T_max_cooling + cfg.T_tolerance
            ELSE cfg.T_max_cooling
        T_min_cooling ==
            IF self.wired /\ l3state = 1
            THEN IF RunTimeSignal > 0
                 THEN cfg.T_min_cooling - cfg.T_tolerance
                 ELSE (cfg.T_min_cooling + cfg.T_max_cooling) \div 2
            ELSE cfg.T_min_cooling
        s1 == IF self.wired
              THEN [self EXCEPT !.state = L2S_is_compulsory(@),
                                !.previous_state = L2S_is_compulsory(@)]
              ELSE self
        early == ~self.wired /\ ~cfg.cooling_considered
        s2 == IF early THEN s1
              ELSE IF L2S_is_first_iteration(s1.state, timestep)
                   THEN [s1 EXCEPT !.state = L2S_first_iteration(@, timestep),
                                   !.previous_state = L2S_first_iteration(@, timestep)]
                   ELSE s1
        s3 == IF cfg.cooling_considered
                 /\ timestep < cfg.heating_season_begin
                 /\ timestep > cfg.heating_season_end
              THEN L2_control_cooling(s2, in.ReferenceTemperature,
                                      T_min_cooling, T_max_cooling, l3state)
              ELSE L2_control_heating(s2, in.ReferenceTemperature,
                                      T_min_heating, T_max_heating, l3state)
    IN IF ~self.wired
       THEN [self |-> s2, out |-> <<>>, raised |-> TRUE]
       ELSE [self |-> s3, out |-> [ l2_DeviceSignal |-> s3.state.state ],
             raised |-> FALSE]

(***************************************************************************)
(* GasHeaterWithController                                                 *)
(***************************************************************************)
GH_init == [ state_controller |-> 0, max_mass_flow_in_g_per_second |-> 0 ]

\* the mass flow is kept in grams per second; a division by zero raises
GH_i_simulate(self, in, force_convergence) ==
    LET state == in.State
        range == initial_temperature_water_boiler_in_celsius
                     - in.InitialResidenceTemperature
        max_mass_flow ==
            IF range = 0 THEN 0
            ELSE (in.ReferenceMaxHeatBuildingDemand * 1000)
                     \div (specific_heat_capacity_of_water * range)
        gain(gas_power_in_watt) ==
            IF max_mass_flow = 0 THEN 0
            ELSE (gas_power_in_watt * 1000)
                     \div (max_mass_flow * specific_heat_capacity_of_water)
        always == [ MaxMassFlow |-> max_mass_flow,
                    InitialWaterBoilerTemperatureOutput |->
                        initial_temperature_water_boiler_in_celsius ]
        boiler(gas_power_in_watt) ==
            [ WaterBoilerTemperatureOutput |->
                  initial_temperature_water_boiler_in_celsius
                      + gain(gas_power_in_watt),
              GasPower |-> gas_power_in_watt ]
    IN IF range = 0
       THEN \* the division for the mass flow raises: nothing is written yet
            [ self |-> [self EXCEPT !.state_controller = state],
              out |-> << >>, raised |-> TRUE ]
       ELSE IF state \in {0, 1} /\ max_mass_flow = 0
       THEN \* the division for the temperature gain raises: the mass flow
            \* and the initial boiler temperature are written by then
            [ self |-> [ state_controller |-> state,
                         max_mass_flow_in_g_per_second |-> max_mass_flow ],
              out |-> always, raised |-> TRUE ]
       ELSE [ self |-> [ state_controller |-> state,
                         max_mass_flow_in_g_per_second |-> max_mass_flow ],
              out |-> IF state = 1
                      THEN always @@ boiler(maximal_thermal_power_in_watt)
                      ELSE IF state = 0 THEN always @@ boiler(0)
                      ELSE always,
              raised |-> FALSE ]

(***************************************************************************)
(* SumBuilderForTwoInputs                                                  *)
(***************************************************************************)
SUM_init == [ component_name |-> "SumBuilderForTwoInputs" ]

\* a sum builder that forgets its first input (sensitivity variant)
SUM_i_simulate_OnlyInput2(self, in, force_convergence) ==
    [ self |-> self, out |-> [ Sum |-> in["Input 2"] ], raised |-> FALSE ]

SUM_i_simulate(self, in, force_convergence) ==
    [ self |-> self,
      out |-> [ Sum |-> in["Input 1"] + in["Input 2"] ],
      raised |-> FALSE ]

(***************************************************************************)
(* SumBuilderForThreeInputs                                                *)
(***************************************************************************)
SUM3_init == [ state |-> 0, previous_state |-> 0 ]

SUM3_i_simulate(self, in, force_convergence) ==
    [ self |-> self,
      out |-> [ Sum |-> in["Input 1"] + in["Input 2"] + in["Input 3"] ],
      raised |-> FALSE ]

(***************************************************************************)
(* CalculateOperation: the operations are applied to the inputs from left  *)
(* to right. Divide is the division of integers here; by zero it raises.   *)
(***************************************************************************)
operations_available == {"Sum", "Subtract", "Multiply", "Divide"}

CALC_init(operations) == [ operations |-> operations ]

CALC_operation(operation, total, val1) ==
    CASE operation = "Sum" -> total + val1
      [] operation = "Subtract" -> total - val1
      [] operation = "Multiply" -> total * val1
      [] operation = "Divide" -> IF val1 = 0 THEN 0 ELSE total \div val1

RECURSIVE CALC_total(_, _, _)
CALC_total(operations, values, index) ==
    IF index = 1 THEN values[1]
    ELSE CALC_operation(operations[index - 1],
                        CALC_total(operations, values, index - 1), values[index])

\* a CalculateOperation that subtracts where it is to divide: the update of
\* the cycle it sits in no longer contracts (sensitivity variant)
CALC_i_simulate_Subtracting(self, values, force_convergence) ==
    [ self |-> self,
      out |-> [ Output |-> CALC_total([k \in DOMAIN self.operations |-> "Subtract"],
                                      values, Len(values)) ],
      raised |-> FALSE ]

\* values: what the inputs read, in the order the inputs were connected
CALC_i_simulate(self, values, force_convergence) ==
    IF \E index \in 2 .. Len(values) :
          \/ self.operations[index - 1] \notin operations_available
          \/ self.operations[index - 1] = "Divide" /\ values[index] = 0
    THEN [ self |-> self, out |-> << >>, raised |-> TRUE ]
    ELSE [ self |-> self,
           out |-> [ Output |-> CALC_total(self.operations, values, Len(values)) ],
           raised |-> FALSE ]

(***************************************************************************)
(* ElectricityGrid, and the numbered inputs and operations it shares with  *)
(* CalculateOperation. inputs holds the names of the source objects.       *)
(***************************************************************************)
EG_operations_available == {"Sum", "Subtract"}

\* signal: "Positive", "Negative" or "None"; built without a grid list
EG_init(signal) == [ inputs |-> << >>, operations |-> << >>, signal |-> signal ]

\* a CalculateOperation before any input is connected
CALC_new == [ inputs |-> << >>, operations |-> << >> ]

\* the components that have an attribute ElectricityOutput
ElectricityProducers == {"PV"}

add_numbered_input(self, src_object_name) ==
    [self EXCEPT !.inputs = Append(@, src_object_name)]

connect_electricity_input(self, component) ==
    IF component \notin ElectricityProducers
    THEN [self |-> self, raised |-> TRUE]
    ELSE [self |-> add_numbered_input(self, component), raised |-> FALSE]

connect_arbitrary_input(self, src_object_name) ==
    [self |-> add_numbered_input(self, src_object_name), raised |-> FALSE]

\* an add_operation that takes any operation name (sensitivity variant)
add_operation_Unchecked(self, operation, available) ==
    IF Len(self.inputs) = Len(self.operations) + 1
    THEN [self |-> [self EXCEPT !.operations = Append(@, operation)], raised |-> FALSE]
    ELSE [self |-> self, raised |-> TRUE]

\* available: the operations_available of the class
add_operation(self, operation, available) ==
    IF Len(self.inputs) = Len(self.operations) + 1
    THEN IF operation \in available
         THEN [self |-> [self EXCEPT !.operations = Append(@, operation)],
               raised |-> FALSE]
         ELSE [self |-> self, raised |-> TRUE]
    ELSE [self |-> self, raised |-> TRUE]

\* the loop of connect_all from element index on (counted from 1): what was
\* connected before an element raises stays connected
RECURSIVE connect_all_from(_, _, _)
connect_all_from(self, items, index) ==
    IF index > Len(items) THEN [self |-> self, raised |-> FALSE]
    ELSE LET r == IF index % 2 = 1
                  THEN connect_electricity_input(self, items[index])
                  ELSE add_operation(self, items[index], EG_operations_available)
         IN IF r.raised THEN r ELSE connect_all_from(r.self, items, index + 1)

\* list_of_operations: [is_list, items]
connect_all(self, list_of_operations) ==
    IF ~list_of_operations.is_list \/ Len(list_of_operations.items) % 2 = 0
    THEN [self |-> self, raised |-> TRUE]
    ELSE connect_all_from(self, list_of_operations.items, 1)

\* the fold of i_simulate up to input index: [total, raised]; reading
\* operations[index - 1] beyond the list raises IndexError, an operation
\* other than Sum and Subtract raises
RECURSIVE EG_total(_, _, _)
EG_total(operations, values, index) ==
    IF index = 0 THEN [total |-> 0, raised |-> FALSE]
    ELSE IF index = 1 THEN [total |-> values[1], raised |-> FALSE]
    ELSE LET t == EG_total(operations, values, index - 1)
         IN IF t.raised \/ index - 1 > Len(operations) THEN [total |-> 0, raised |-> TRUE]
            ELSE IF operations[index - 1] = "Sum"
            THEN [total |-> t.total + values[index], raised |-> FALSE]
            ELSE IF operations[index - 1] = "Subtract"
            THEN [total |-> t.total - values[index], raised |-> FALSE]
            ELSE [total |-> 0, raised |-> TRUE]

\* a grid that ignores its signal (sensitivity variant)
EG_i_simulate_Unsigned(self, values, force_convergence) ==
    LET t == EG_total(self.operations, values, Len(values))
    IN IF t.raised THEN [self |-> self, out |-> << >>, raised |-> TRUE]
       ELSE [self |-> self, out |-> [ElectricityOutput |-> t.total], raised |-> FALSE]

\* values: what the inputs read, in the order the inputs were connected
EG_i_simulate(self, values, force_convergence) ==
    LET t == EG_total(self.operations, values, Len(values))
        total == IF self.signal = "Positive" /\ t.total < 0 THEN 0
                 ELSE IF self.signal = "Negative" /\ t.total > 0 THEN 0
                 ELSE t.total
    IN IF t.raised THEN [self |-> self, out |-> << >>, raised |-> TRUE]
       ELSE [self |-> self, out |-> [ElectricityOutput |-> total], raised |-> FALSE]

(***************************************************************************)
(* Weather and Building: their code is not part of src/. They write the    *)
(* driving data of the timestep, loaded at construction, to their outputs. *)
(***************************************************************************)
WEA_init(series) == [ series |-> series ]

WEA_i_simulate(self, timestep) ==
    [ self |-> self,
      out |-> [ DailyAverageOutsideTemperatures |->
                    self.series[timestep + 1].DailyAverageOutsideTemperatures ],
      raised |-> FALSE ]

BLD_init(series, reference_demand, initial_internal_temperature) ==
    [ series |-> series,
      ReferenceMaxHeatBuildingDemand |-> reference_demand,
      InitialInternalTemperature |-> initial_internal_temperature ]

BLD_i_simulate(self, timestep) ==
    [ self |-> self,
      out |-> [ TemperatureMean |-> self.series[timestep + 1].TemperatureMean,
                TheoreticalThermalBuildingDemand |->
                    self.series[timestep + 1].TheoreticalThermalBuildingDemand,
                ReferenceMaxHeatBuildingDemand |-> self.ReferenceMaxHeatBuildingDemand,
                InitialInternalTemperature |-> self.InitialInternalTemperature ],
      raised |-> FALSE ]

(***************************************************************************)
(* Port Model: the declared Inputs (with their mandatory flag), Outputs    *)
(* and default-connection offers of each component, in declaration order.  *)
(***************************************************************************)
\* a port declaration that ignores the mandatory flag (sensitivity variant)
In_AlwaysMandatory(name, mandatory) == [name |-> name, mandatory |-> TRUE]

In(name, mandatory) == [name |-> name, mandatory |-> mandatory]

Offer(input, class, output) == [input |-> input, class |-> class, output |-> output]

Inputs(c) ==
    CASE c = HDC -> << In("TheoreticalThermalBuildingDemand", TRUE),
                       In("DailyAverageOutsideTemperature", TRUE),
                       In("WaterTemperatureInputFromHeatWaterStorage", TRUE) >>
      [] c = GHC -> << In("ResidenceTemperature", TRUE),
                       In("WaterBoilerTemperatureInput", TRUE) >>
      [] c = GH  -> << In("State", TRUE),
                       In("InitialResidenceTemperature", TRUE),
                       In("Residence Temperature", TRUE),
                       In("ReferenceMaxHeatBuildingDemand", TRUE) >>
      [] c = SUM -> << In("Input 1", TRUE), In("Input 2", FALSE) >>
      [] c = SUM3 -> << In("Input 1", TRUE), In("Input 2", FALSE),
                        In("Input 3", FALSE) >>
      [] c = CALC -> << In("Input1", TRUE), In("Input2", TRUE) >>
      [] c = L2C -> << In("ReferenceTemperature", TRUE),
                       In("l1_RunTimeSignal", FALSE),
                       In("ElectricityTarget", TRUE) >>
      [] c = BAT -> << In("LoadingPowerInput", TRUE) >>
      [] c = HP  -> << In("OnOffSwitch", TRUE),
                       In("TemperatureInputPrimary", TRUE),
                       In("TemperatureInputSecondary", TRUE),
                       In("TemperatureAmbient", TRUE) >>
      [] OTHER   -> << >>

Outputs(c) ==
    CASE c = HDC -> << "State", "HeatingFlowTemperature" >>
      [] c = GHC -> << "State" >>
      [] c = GH  -> << "WaterBoilerTemperatureOutput",
                       "InitialWaterBoilerTemperatureOutput",
                       "GasPower", "MaxMassFlow" >>
      [] c = SUM -> << "Sum" >>
      [] c = SUM3 -> << "Sum" >>
      [] c = CALC -> << "Output" >>
      [] c = L2C -> << "l2_DeviceSignal" >>
      [] c = BAT -> << "AcBatteryPower", "DcBatteryPower", "StateOfCharge" >>
      [] c = HP  -> << "ThermalOutputPower", "ElectricalInputPower", "COP", "EER",
                       "TemperatureOutput", "MassFlowOutput", "TimeOn", "TimeOff" >>
      [] c = WEA -> << "DailyAverageOutsideTemperatures" >>
      [] c = BLD -> << "TemperatureMean", "TheoreticalThermalBuildingDemand",
                       "ReferenceMaxHeatBuildingDemand", "InitialInternalTemperature" >>
      [] c = BOILER -> << "TemperatureMean" >>
      [] c = L1C -> << "l1_RunTimeSignal" >>
      [] OTHER   -> << >>

\* the offers without L2_Controller's second ReferenceTemperature offer
\* (sensitivity variant)
DefaultConnections_WithoutBoilerOffer(c) ==
    CASE c = L2C -> << Offer("ReferenceTemperature", BLD, "TemperatureMean"),
                       Offer("l1_RunTimeSignal", L1C, "l1_RunTimeSignal") >>
      [] c = GHC -> << Offer("ResidenceTemperature", BLD, "TemperatureMean") >>
      [] c = GH  -> << Offer("State", GHC, "State") >>
      [] OTHER   -> << >>

DefaultConnections(c) ==
    CASE c = HDC -> << Offer("TheoreticalThermalBuildingDemand", BLD,
                             "TheoreticalThermalBuildingDemand"),
                       Offer("DailyAverageOutsideTemperature", WEA,
                             "DailyAverageOutsideTemperatures"),
                       Offer("WaterTemperatureInputFromHeatWaterStorage",
                             "SimpleHotWaterStorage",
                             "WaterTemperatureToHeatDistributionSystem") >>
      [] c = GHC -> << Offer("ResidenceTemperature", BLD, "TemperatureMean") >>
      [] c = GH  -> << Offer("State", GHC, "State") >>
      [] c = L2C -> << Offer("ReferenceTemperature", BLD, "TemperatureMean"),
                       Offer("ReferenceTemperature", BOILER, "TemperatureMean"),
                       Offer("l1_RunTimeSignal", L1C, "l1_RunTimeSignal") >>
      [] OTHER   -> << >>

Range(seq) == { seq[k] : k \in DOMAIN seq }

InputNames(c) == { i.name : i \in Range(Inputs(c)) }

IndexOf(seq, x) == CHOOSE k \in DOMAIN seq : seq[k] = x

(***************************************************************************)
(* Graph Builder: resolves the connections, validates the mandatory        *)
(* inputs, allocates the Value Slab slots and orders the evaluation.       *)
(***************************************************************************)
Conn(consumer, input, producer, output) ==
    [consumer |-> consumer, input |-> input, producer |-> producer, output |-> output]

NoSource == [producer |-> "none", output |-> "none"]

Ports == UNION { {c} \X InputNames(c) : c \in Range(registered) }

HasExplicit(c, i) == \E e \in explicit : e.consumer = c /\ e.input = i

\* the registered partners a default-connection offer of c for input i matches
Candidates(c, i) ==
    { [producer |-> d.class, output |-> d.output] :
      d \in { d \in Range(DefaultConnections(c)) :
                 /\ d.input = i
                 /\ d.class \in Range(registered)
                 /\ d.output \in Range(Outputs(d.class)) } }

\* a builder that applies a present default offer before looking at the
\* explicit connection (sensitivity variant)
Source_DefaultFirst(c, i) ==
    IF Cardinality(Candidates(c, i)) = 1
    THEN CHOOSE x \in Candidates(c, i) : TRUE
    ELSE IF HasExplicit(c, i)
         THEN LET e == CHOOSE e \in explicit : e.consumer = c /\ e.input = i
              IN [producer |-> e.producer, output |-> e.output]
         ELSE NoSource

\* an explicit connection wins; a default is applied to an otherwise
\* unconnected input when exactly one candidate is present
Source(c, i) ==
    IF HasExplicit(c, i)
    THEN LET e == CHOOSE e \in explicit : e.consumer = c /\ e.input = i
         IN [producer |-> e.producer, output |-> e.output]
    ELSE IF Cardinality(Candidates(c, i)) = 1
         THEN CHOOSE x \in Candidates(c, i) : TRUE
         ELSE NoSource

Mandatory(c, i) == \E d \in Range(Inputs(c)) : d.name = i /\ d.mandatory

Ambiguous == { p \in Ports : ~HasExplicit(p[1], p[2])
                             /\ Cardinality(Candidates(p[1], p[2])) > 1 }

Missing == { p \in Ports : Mandatory(p[1], p[2]) /\ Source(p[1], p[2]) = NoSource }

Edges == { <<Source(p[1], p[2]).producer, p[1]>> :
           p \in { p \in Ports : Source(p[1], p[2]) # NoSource } }

RECURSIVE ReachableFrom(_, _)
ReachableFrom(S, edges) ==
    LET T == S \cup { e[2] : e \in { e \in edges : e[1] \in S } }
    IN IF T = S THEN S ELSE ReachableFrom(T, edges)

Reaches(a, b, edges) ==
    b \in ReachableFrom({ e[2] : e \in { e \in edges : e[1] = a } }, edges)

\* the components implicated in a cycle
Cyclic(edges) == { c \in Range(registered) : Reaches(c, c, edges) }

\* the edges that lie on no cycle
AcyclicEdges(edges) == { e \in edges : ~Reaches(e[2], e[1], edges) }

InCycle(c) == c \in Cyclic(Edges)

\* a and b lie on a common cycle
OnCommonCycle(a, b, edges) == Reaches(a, b, edges) /\ Reaches(b, a, edges)

\* an order computed over the acyclic subset alone, with no policy for the
\* components of a cycle (sensitivity variant)
OrderingEdges_AcyclicOnly(edges) == AcyclicEdges(edges)

\* what the evaluation order has to respect: the edges that lie on no cycle,
\* and registration order among the components of a common cycle
OrderingEdges(edges) ==
    AcyclicEdges(edges) \cup
    { x \in Range(registered) \X Range(registered) :
        /\ IndexOf(registered, x[1]) < IndexOf(registered, x[2])
        /\ OnCommonCycle(x[1], x[2], edges) }

\* Kahn's algorithm over the edges that lie on no cycle, the first ready
\* component in registration order next
RECURSIVE Kahn(_, _)
Kahn(placed, edges) ==
    IF Len(placed) = Len(registered)
    THEN placed
    ELSE LET ready == { k \in DOMAIN registered :
                          /\ registered[k] \notin Range(placed)
                          /\ \A e \in edges :
                               e[2] = registered[k] => e[1] \in Range(placed) }
             first(set) == CHOOSE k \in set : \A j \in set : k <= j
         IN Kahn(Append(placed, registered[first(ready)]), edges)

RECURSIVE NumberOfOutputsUpTo(_)
NumberOfOutputsUpTo(k) ==
    IF k = 0 THEN 0 ELSE NumberOfOutputsUpTo(k - 1) + Len(Outputs(registered[k]))

NumberOfOutputs == NumberOfOutputsUpTo(Len(registered))

\* an allocation that numbers the Outputs of each component from 0
\* (sensitivity variant)
SlotIndex_PerComponent(c, o) ==
    IndexOf(Outputs(c), o) - 1

\* slots are handed out in registration order, then declaration order
SlotIndex(c, o) ==
    NumberOfOutputsUpTo(IndexOf(registered, c) - 1) + IndexOf(Outputs(c), o) - 1

NotBuilt == [status |-> "none", errors |-> {}, order |-> << >>, cyclic |-> {}]

\* no run has been started
NotRunning == [phase |-> "none"]

driver == <<run, slab, previous_slab, ghost>>

NoDriver ==
    /\ run = NotRunning
    /\ slab = << >>
    /\ previous_slab = << >>
    /\ ghost = << >>

Error(kind, p) == [kind |-> kind, component |-> p[1], input |-> p[2]]

\* the validation errors of one build
ValidationErrors ==
    { Error("ambiguous default connection", p) : p \in Ambiguous }
        \cup { Error("missing connection", p) : p \in Missing }

GraphBuilder ==
    IF ValidationErrors # {}
    THEN [status |-> "error", errors |-> ValidationErrors, order |-> << >>,
          cyclic |-> {}]
    ELSE [status |-> "ok", errors |-> {},
          order |-> Kahn(<< >>, OrderingEdges(Edges)), cyclic |-> Cyclic(Edges)]

(***************************************************************************)
(* Assembly: register components, connect inputs, then build the graph.    *)
(***************************************************************************)
AssemblyUniverse == {BLD, BOILER, GH, GHC, SUM, L2C}

\* the explicit connections an assembling caller asks for
ConnectionRequests ==
    { Conn(GH, "State", GHC, "State"),
      Conn(GH, "ReferenceMaxHeatBuildingDemand", BLD, "ReferenceMaxHeatBuildingDemand"),
      Conn(GH, "InitialResidenceTemperature", BLD, "InitialInternalTemperature"),
      Conn(GH, "Residence Temperature", BLD, "TemperatureMean"),
      Conn(GHC, "ResidenceTemperature", BLD, "TemperatureMean"),
      Conn(GHC, "ResidenceTemperature", BLD, "InitialInternalTemperature"),
      Conn(GHC, "WaterBoilerTemperatureInput", GH, "WaterBoilerTemperatureOutput"),
      Conn(SUM, "Input 1", GH, "GasPower"),
      Conn(SUM, "Input 1", BLD, "TheoreticalThermalBuildingDemand"),
      Conn(SUM, "Input 2", BLD, "TheoreticalThermalBuildingDemand"),
      Conn(SUM, "Input 1", L2C, "l2_DeviceSignal"),
      Conn(L2C, "ReferenceTemperature", BOILER, "TemperatureMean"),
      Conn(L2C, "ElectricityTarget", SUM, "Sum") }

AssemblyInit ==
    /\ comp = << >>
    /\ hook = [c |-> "none", X |-> << >>, committed |-> FALSE,
               last |-> "init", calls |-> 0]
    /\ registered = << >>
    /\ explicit = {}
    /\ built = NotBuilt
    /\ NoDriver
    /\ NoRepository

Register ==
    /\ built = NotBuilt
    /\ Len(registered) < MaxRegistered
    /\ \E c \in AssemblyUniverse \ Range(registered) :
         registered' = Append(registered, c)
    /\ UNCHANGED <<repository, comp, hook, explicit, built, driver>>

Connect ==
    /\ built = NotBuilt
    /\ Cardinality(explicit) < MaxConnections
    /\ \E e \in ConnectionRequests :
         /\ e.consumer \in Range(registered)
         /\ e.producer \in Range(registered)
         /\ ~HasExplicit(e.consumer, e.input)
         /\ explicit' = explicit \cup {e}
    /\ UNCHANGED <<repository, comp, hook, registered, built, driver>>

Assemble ==
    /\ built = NotBuilt
    /\ built' = GraphBuilder
    /\ UNCHANGED <<repository, comp, hook, registered, explicit, driver>>

AssemblyNext == Register \/ Connect \/ Assemble

(***************************************************************************)
(* The Component SPI, dispatched on the component.                         *)
(***************************************************************************)
StatefulComponents == {HDC, GHC, BAT, HP, L2C}

\* the components the hook harness calls
HarnessComponents == StatefulComponents \cup {HD, HPL1, HWS}

i_save_state(c, self) ==
    CASE c = HDC -> HDC_i_save_state(self)
      [] c = GHC -> GHC_i_save_state(self)
      [] c = BAT -> BAT_i_save_state(self)
      [] c = HP  -> HP_i_save_state(self)
      [] c = L2C -> L2_i_save_state(self)
      [] c = HPL1 -> L1_i_save_state(self)
      [] c = HD  -> HD_i_save_state(self)
      [] c = HWS -> HWS_i_save_state(self)
      [] OTHER   -> self

i_restore_state(c, self) ==
    CASE c = HDC -> HDC_i_restore_state(self)
      [] c = GHC -> GHC_i_restore_state(self)
      [] c = BAT -> BAT_i_restore_state(self)
      [] c = HP  -> HP_i_restore_state(self)
      [] c = L2C -> L2_i_restore_state(self)
      [] c = HPL1 -> L1_i_restore_state(self)
      [] c = HD  -> HD_i_restore_state(self)
      [] c = HWS -> HWS_i_restore_state(self)
      [] OTHER   -> self

i_simulate(c, self, in, timestep, force_convergence) ==
    CASE c = HDC -> HDC_i_simulate(self, in, force_convergence)
      [] c = GHC -> GHC_i_simulate(self, in, force_convergence)
      [] c = GH  -> GH_i_simulate(self, in, force_convergence)
      [] c = SUM -> SUM_i_simulate(self, in, force_convergence)
      [] c = SUM3 -> SUM3_i_simulate(self, in, force_convergence)
      [] c = CALC -> CALC_i_simulate(self,
                         [k \in DOMAIN Inputs(CALC) |-> in[Inputs(CALC)[k].name]],
                         force_convergence)
      [] c = BAT -> BAT_i_simulate(self, in,
                         BAT_simulate(in.LoadingPowerInput, self.state.soc,
                                      seconds_per_timestep),
                         force_convergence)
      [] c = L2C -> L2_i_simulate(self, in, timestep, force_convergence)
      [] c = WEA -> WEA_i_simulate(self, timestep)
      [] c = BLD -> BLD_i_simulate(self, timestep)

\* whether i_doublecheck raises: the hooks of src/ are all `pass`; what the
\* hooks of Weather and Building do is not known
i_doublecheck(c) == IF c \in {WEA, BLD} THEN BOOLEAN ELSE {FALSE}

\* the current State of a component: what its evaluation reads and mutates
CurrentState(c, self) ==
    CASE c = HDC -> [mode |-> self.controller_heat_distribution_mode]
      [] c = HPL1 -> [mode |-> self.controller_heatpumpmode]
      [] c = GHC -> [mode |-> self.controller_gas_valve_mode]
      [] c \in {BAT, HP, L2C, HWS} -> self.state
      [] OTHER -> <<>>

\* the committed (previous) State of a component
CommittedState(c, self) ==
    CASE c = HDC -> [mode |-> self.previous_controller_heat_distribution_mode]
      [] c = HPL1 -> [mode |-> self.previous_heatpump_mode]
      [] c = GHC -> [mode |-> self.previous_controller_gas_valve_mode]
      [] c \in {BAT, HP, L2C, HWS} -> self.previous_state
      [] OTHER -> <<>>

(***************************************************************************)
(* Values the harness and the driving data draw from.                      *)
(***************************************************************************)
DemandValues == {0, 500}
OutsideTemperatures == {10, 16, 20}
ResidenceTemperatures == {17, 19}
BoilerTemperatures == {35, 65}
SocLevels == {0, 50, 100}
PowerValues == {-100, 100}
OnOffValues == {-1, 0, 1}
hpl_results == [ P_th |-> 5000, P_el |-> 1500, COP |-> 3, EER |-> 2,
                 T_out |-> 40, m_dot |-> 1 ]
L2Temperatures(config) ==
    IF config.cooling_considered THEN {18, 21, 24, 27} ELSE {40, 60, 90}
ElectricityTargets == {0, 2000}
\* HeatDistribution: with a maximal demand of 3138 W and floor heating the
\* water mass flow is 250 g/s, so 1046 W cool the water by one degree
MaxThermalBuildingDemands == {0, 3138}
ThermalDemands == {-2092, 0, 1046, 5230}
WaterTemperatures == {19, 22, 40}
IndoorAirTemperatures == {20, 21}
ControllerStates == {0, 1, 2}
\* HeatPumpHplibControllerL1
StorageTemperatures == {30, 40}
FlowTemperatures == {35}
\* HeatingWaterStorage
HWSConfigs ==
    { HWSConfig_default,
      [HWSConfig_default EXCEPT !.mean_water_temperature_in_storage_in_celsius = 40] }
ReturnTemperatures == {30, 50}
GeneratorTemperatures == {60}
MassFlowRates == {0, 1}

\* one direct call of i_simulate: its arguments and what it returns
Call(in, timestep, force_convergence, r) ==
    [ in |-> in, timestep |-> timestep, force_convergence |-> force_convergence,
      self |-> r.self, out |-> r.out, raised |-> r.raised ]

\* the direct calls of i_simulate the harness makes on a component
SimulateCalls(c, self) ==
    CASE c = HDC ->
           { LET in == [TheoreticalThermalBuildingDemand |-> d,
                        DailyAverageOutsideTemperature |-> t]
             IN Call(in, 0, f, HDC_i_simulate(self, in, f)) :
             d \in DemandValues, t \in OutsideTemperatures, f \in BOOLEAN }
      [] c = GHC ->
           { LET in == [ResidenceTemperature |-> r, WaterBoilerTemperatureInput |-> b]
             IN Call(in, 0, f, GHC_i_simulate(self, in, f)) :
             r \in ResidenceTemperatures, b \in BoilerTemperatures, f \in BOOLEAN }
      [] c = BAT ->
           { LET in == [LoadingPowerInput |-> p]
             IN Call(in, 0, f, BAT_i_simulate(self, in, <<p, p, s>>, f)) :
             p \in PowerValues, s \in SocLevels, f \in BOOLEAN }
      [] c = HP ->
           { LET in == [OnOffSwitch |-> o, TemperatureInputPrimary |-> 5,
                        TemperatureInputSecondary |-> 30, TemperatureAmbient |-> 5]
             IN Call(in, 0, f, HP_i_simulate(self, in, hpl_results, f)) :
             o \in OnOffValues, f \in BOOLEAN }
      [] c = HD ->
           { LET in == [State |-> x[1], TheoreticalThermalBuildingDemand |-> x[2],
                        WaterTemperatureInput |-> x[3],
                        ResidenceTemperatureIndoorAir |-> x[4]]
             IN Call(in, 0, f, HD_i_simulate(self, in, f)) :
             x \in ControllerStates \X ThermalDemands \X WaterTemperatures
                     \X IndoorAirTemperatures,
             f \in BOOLEAN }
      [] c = HPL1 ->
           { LET in == [WaterTemperatureInputFromHeatWaterStorage |-> w,
                        HeatingFlowTemperatureFromHeatDistributionSystem |-> t]
             IN Call(in, 0, f, L1_i_simulate(self, in, f)) :
             w \in StorageTemperatures, t \in FlowTemperatures, f \in BOOLEAN }
      [] c = HWS ->
           { LET in == [WaterTemperatureFromHeatDistributionSystem |-> x[1],
                        WaterTemperaturefromHeatGenerator |-> x[2],
                        WaterMassFlowRateFromHeatGenerator |-> x[3],
                        WaterMassFlowRateFromHeatDistributionSystem |-> x[4]]
             IN Call(in, x[5], f, HWS_i_simulate(self, in, x[5], f)) :
             x \in ReturnTemperatures \X GeneratorTemperatures \X MassFlowRates
                     \X MassFlowRates \X {0, MaxTimestep},
             f \in BOOLEAN }
      [] c = L2C ->
           { LET in == [ReferenceTemperature |-> x[1], ElectricityTarget |-> x[2],
                        l1_RunTimeSignal |-> x[3]]
             IN Call(in, x[4], f, L2_i_simulate(self, in, x[4], f)) :
             x \in L2Temperatures(self.config) \X ElectricityTargets
                     \X {0, 1} \X (0 .. MaxTimestep),
             f \in BOOLEAN }

\* what the direct calls of i_simulate return
SimulateOutcomes(c, self) ==
    { [self |-> x.self, out |-> x.out, raised |-> x.raised] : x \in SimulateCalls(c, self) }

\* no call of i_simulate made yet
NoCall == [ in |-> << >>, timestep |-> 0, force_convergence |-> FALSE,
            self |-> << >>, out |-> << >>, raised |-> FALSE ]

InitialObjects(c) ==
    CASE c = HDC -> {HDC_init}
      [] c = GHC -> {GHC_init}
      [] c = BAT -> {BAT_init}
      [] c = HP  -> {HP_init}
      [] c = HD  -> { HD_init(d, FLOORHEATING) : d \in MaxThermalBuildingDemands }
      [] c = HPL1 -> { L1_init(m) : m \in {1, 2} }
      [] c = HWS -> { HWS_init(config) : config \in HWSConfigs }
      [] c = L2C -> { L2_init(cfg, w, pr) :
                      cfg \in {L2Config_heating, L2Config_waterheating},
                      w \in BOOLEAN, pr \in BOOLEAN }

(***************************************************************************)
(* The hook harness: one component, its hooks called directly in any       *)
(* order, as tests/test_example_storage.py does.                           *)
(***************************************************************************)
HooksInit ==
    /\ \E c \in HarnessComponents : \E o \in InitialObjects(c) :
         /\ comp = [x \in {c} |-> o]
         /\ hook = [ c |-> c, X |-> CurrentState(c, o), committed |-> FALSE,
                     last |-> "init", calls |-> 0, call |-> NoCall ]
    /\ registered = << >>
    /\ explicit = {}
    /\ built = NotBuilt
    /\ NoDriver
    /\ NoRepository

HookSaveState ==
    /\ hook.calls < MaxHookCalls
    /\ comp' = [comp EXCEPT ![hook.c] = i_save_state(hook.c, @)]
    /\ hook' = [hook EXCEPT !.X = CurrentState(hook.c, comp[hook.c]),
                            !.committed = TRUE,
                            !.last = "save", !.calls = @ + 1]
    /\ UNCHANGED <<repository, registered, explicit, built, driver>>

HookSimulate ==
    /\ hook.calls < MaxHookCalls
    /\ \E r \in SimulateCalls(hook.c, comp[hook.c]) :
         /\ comp' = [comp EXCEPT ![hook.c] = r.self]
         /\ hook' = [hook EXCEPT !.last = "simulate", !.calls = @ + 1, !.call = r]
    /\ UNCHANGED <<repository, registered, explicit, built, driver>>

HookRestoreState ==
    /\ hook.calls < MaxHookCalls
    /\ comp' = [comp EXCEPT ![hook.c] = i_restore_state(hook.c, @)]
    /\ hook' = [hook EXCEPT !.last = "restore", !.calls = @ + 1]
    /\ UNCHANGED <<repository, registered, explicit, built, driver>>

HooksNext == HookSaveState \/ HookSimulate \/ HookRestoreState

(***************************************************************************)
(* A HeatPumpHplib evaluated timestep after timestep, one evaluation of    *)
(* seconds_per_timestep each. hook.on_off is the mode the pump is in and   *)
(* hook.time_in_mode the seconds of the current uninterrupted run of it.   *)
(***************************************************************************)
HeatPumpInit ==
    /\ comp = [x \in {HP} |-> HP_init]
    /\ hook = [ c |-> HP, X |-> CurrentState(HP, HP_init), committed |-> FALSE,
                last |-> "init", calls |-> 0, call |-> NoCall,
                on_off |-> HP_init.state.on_off_previous, time_in_mode |-> 0 ]
    /\ registered = << >>
    /\ explicit = {}
    /\ built = NotBuilt
    /\ NoDriver
    /\ NoRepository

HeatPumpEvaluate ==
    /\ hook.calls < MaxHeatPumpCalls
    /\ \E r \in SimulateCalls(HP, comp[HP]) :
         /\ comp' = [comp EXCEPT ![HP] = r.self]
         /\ hook' = [hook EXCEPT
                !.last = "simulate", !.calls = @ + 1, !.call = r,
                !.on_off = r.self.state.on_off_previous,
                !.time_in_mode =
                    IF r.force_convergence THEN @
                    ELSE IF r.self.state.on_off_previous = hook.on_off
                         THEN @ + seconds_per_timestep
                         ELSE seconds_per_timestep]
    /\ UNCHANGED <<repository, registered, explicit, built, driver>>

HeatPumpNext == HeatPumpEvaluate

(***************************************************************************)
(* An ElectricityGrid or a CalculateOperation that is wired call by call   *)
(* and evaluated. hook.history holds the calls made, hook.before the       *)
(* object before the last call, hook.arg what the call was given.          *)
(***************************************************************************)
Signals == {"None", "Positive", "Negative"}
GridComponents == {"PV", "Weather"}
OperationNames == {"Sum", "Subtract", "Multiply"}
\* in the place of a component, an operation name is an object without an
\* attribute ElectricityOutput
ListElements == {"PV", "Sum", "Multiply"}
GridValues == {-5, 3}

SequencesUpTo(n, S) == UNION { [1 .. k -> S] : k \in 0 .. n }

\* lists, and two tuples in the place of a list
ConnectAllArguments ==
    { [is_list |-> TRUE, items |-> q] : q \in SequencesUpTo(MaxListLength, ListElements) }
      \cup { [is_list |-> FALSE, items |-> q] : q \in { << "PV" >>, << "PV", "Sum", "PV" >> } }

Available(c) == IF c = EG THEN EG_operations_available ELSE operations_available

GridInit ==
    /\ \E c \in {EG, CALC} :
         \E o \in (IF c = EG THEN { EG_init(g) : g \in Signals } ELSE {CALC_new}) :
           /\ comp = [x \in {c} |-> o]
           /\ hook = [ c |-> c, calls |-> 0, last |-> "init", history |-> << >>,
                       before |-> o, arg |-> << >>, raised |-> FALSE, out |-> << >>,
                       written |-> FALSE ]
    /\ registered = << >>
    /\ explicit = {}
    /\ built = NotBuilt
    /\ NoDriver
    /\ NoRepository

\* the call `name` with argument arg returned r = [self, raised] or
\* [self, out, raised]
GridCalled(name, arg, r, out) ==
    /\ Len(r.self.inputs) <= MaxGridInputs
    /\ comp' = [comp EXCEPT ![hook.c] = r.self]
    /\ hook' = [hook EXCEPT !.calls = @ + 1, !.last = name,
                            !.history = Append(@, name),
                            !.before = comp[hook.c], !.arg = arg,
                            !.raised = r.raised, !.out = out,
                            !.written = @ \/ name = "write"]
    /\ UNCHANGED <<repository, registered, explicit, built, driver>>

GridConnect ==
    /\ hook.calls < MaxGridCalls
    /\ \E component \in GridComponents :
         GridCalled("connect", component,
                    IF hook.c = EG
                    THEN connect_electricity_input(comp[hook.c], component)
                    ELSE connect_arbitrary_input(comp[hook.c], component),
                    << >>)

GridAddOperation ==
    /\ hook.calls < MaxGridCalls
    /\ \E operation \in OperationNames :
         GridCalled("add_operation", operation,
                    add_operation(comp[hook.c], operation, Available(hook.c)), << >>)

GridConnectAll ==
    /\ hook.calls < MaxGridCalls
    /\ hook.c = EG
    /\ \E list_of_operations \in ConnectAllArguments :
         GridCalled("connect_all", list_of_operations,
                    connect_all(comp[EG], list_of_operations), << >>)

\* self.operations is a plain attribute: a caller that fills it without
\* add_operation can put any name in it
GridWriteOperations ==
    /\ hook.calls < MaxGridCalls
    /\ hook.c = EG
    /\ Len(comp[EG].inputs) >= 2
    /\ \E operations \in [1 .. Len(comp[EG].inputs) - 1 -> OperationNames] :
         GridCalled("write", operations,
                    [self |-> [comp[EG] EXCEPT !.operations = operations],
                     raised |-> FALSE], << >>)

GridSimulate ==
    /\ hook.calls < MaxGridCalls
    /\ hook.c = EG
    /\ \E values \in [1 .. Len(comp[EG].inputs) -> GridValues] :
         LET r == EG_i_simulate(comp[EG], values, FALSE)
         IN GridCalled("i_simulate", values, r, r.out)

GridNext ==
    \/ GridConnect
    \/ GridAddOperation
    \/ GridConnectAll
    \/ GridWriteOperations
    \/ GridSimulate

(***************************************************************************)
(* The Timestep Driver: the Graph Builder runs once over the registered    *)
(* and connected components, then the timesteps are simulated.             *)
(***************************************************************************)
\* the driving data of one timestep
DrivingData ==
    { [ TemperatureMean |-> 15, TheoreticalThermalBuildingDemand |-> 500,
        DailyAverageOutsideTemperatures |-> 10 ],
      [ TemperatureMean |-> 17, TheoreticalThermalBuildingDemand |-> 500,
        DailyAverageOutsideTemperatures |-> 10 ],
      [ TemperatureMean |-> 19, TheoreticalThermalBuildingDemand |-> 0,
        DailyAverageOutsideTemperatures |-> 20 ] }

\* Building.ReferenceMaxHeatBuildingDemand and InitialInternalTemperature
ReferenceDemands == {0, 6000, 36000}
InitialInternalTemperatures == {20, 35}

\* a Building feeding a sum builder feeding an L2_Controller
AcyclicHousehold ==
    [ registered |-> << BLD, SUM, L2C >>,
      explicit |-> { Conn(SUM, "Input 1", BLD, "TheoreticalThermalBuildingDemand"),
                     Conn(L2C, "ElectricityTarget", SUM, "Sum") } ]

\* the gas heater household: heater and controller feed each other
GasHeaterHousehold ==
    [ registered |-> << WEA, BLD, GH, GHC, HDC >>,
      explicit |->
        { Conn(GH, "State", GHC, "State"),
          Conn(GH, "ReferenceMaxHeatBuildingDemand", BLD, "ReferenceMaxHeatBuildingDemand"),
          Conn(GH, "InitialResidenceTemperature", BLD, "InitialInternalTemperature"),
          Conn(GH, "Residence Temperature", BLD, "TemperatureMean"),
          Conn(GHC, "ResidenceTemperature", BLD, "TemperatureMean"),
          Conn(GHC, "WaterBoilerTemperatureInput", GH, "WaterBoilerTemperatureOutput"),
          Conn(HDC, "WaterTemperatureInputFromHeatWaterStorage", GH,
               "WaterBoilerTemperatureOutput") } ]

\* three components in a cycle: the sum builder adds the Building's demand
\* to what comes back, CalculateOperation divides the sum by the Building's
\* initial temperature, the second sum builder hands the quotient back; the
\* Battery is loaded with the sum
FeedbackHousehold ==
    [ registered |-> << BLD, SUM, CALC, SUM3, BAT >>,
      explicit |->
        { Conn(SUM, "Input 1", BLD, "TheoreticalThermalBuildingDemand"),
          Conn(SUM, "Input 2", SUM3, "Sum"),
          Conn(CALC, "Input1", SUM, "Sum"),
          Conn(CALC, "Input2", BLD, "InitialInternalTemperature"),
          Conn(SUM3, "Input 1", CALC, "Output"),
          Conn(BAT, "LoadingPowerInput", SUM, "Sum") } ]

Households == { AcyclicHousehold, GasHeaterHousehold, FeedbackHousehold }

Construct(c, series, reference_demand, initial_internal_temperature) ==
    CASE c = HDC -> HDC_init
      [] c = GHC -> GHC_init
      [] c = GH  -> GH_init
      [] c = SUM -> SUM_init
      [] c = SUM3 -> SUM3_init
      [] c = CALC -> CALC_init(<< "Divide" >>)
      [] c = BAT -> BAT_init
      [] c = L2C -> L2_init(L2Config_heating, TRUE, FALSE)
      [] c = WEA -> WEA_init(series)
      [] c = BLD -> BLD_init(series, reference_demand, initial_internal_temperature)

NoFailure == [phase |-> "none", component |-> "none", timestep |-> -1]

Failure(phase, component, timestep) ==
    [phase |-> phase, component |-> component, timestep |-> timestep]

ZeroCounts == [c \in Range(registered) |-> 0]

\* the history of a timestep that has not started: the phases begun, the
\* hook calls per component, the values each evaluation read, the State each
\* commit stored, the timestep every slot was last written in
NewTimestep(timestep, committed, written) ==
    [ timestep |-> timestep, written |-> written, phases |-> << >>, evaluations |-> ZeroCounts, final_evaluations |-> ZeroCounts,
      inputs |-> [c \in Range(registered) |-> << >>],
      checked |-> {}, commits |-> ZeroCounts,
      committed |-> committed, unconverged |-> FALSE ]

Init ==
    /\ hook = [c |-> "none", X |-> << >>, committed |-> FALSE,
               last |-> "init", calls |-> 0]
    /\ \E h \in Households : registered = h.registered /\ explicit = h.explicit
    /\ built = NotBuilt
    /\ \E series \in [1 .. MaxTimestep -> DrivingData] :
       \E d \in ReferenceDemands : \E i \in InitialInternalTemperatures :
         comp = [c \in Range(registered) |-> Construct(c, series, d, i)]
    /\ \E f \in BOOLEAN :
         run = [ t |-> 0, phase |-> "start", idx |-> 1, passes |-> 0,
                 fail_on_nonconvergence |-> f, failure |-> NoFailure,
                 degraded |-> {} ]
    /\ slab = [k \in 1 .. NumberOfOutputs |-> 0]
    /\ previous_slab = slab
    /\ ghost = NewTimestep(0, [c \in Range(registered) |-> CurrentState(c, comp[c])],
                            [k \in 1 .. NumberOfOutputs |-> -1])
    /\ NoRepository

\* get_input_value: the slot of the Input's source, 0 for an Input without
Slot(c, o) == SlotIndex(c, o) + 1

ReadInputs(c) ==
    [ i \in InputNames(c) |->
        LET s == Source(c, i)
        IN IF s = NoSource THEN 0 ELSE slab[Slot(s.producer, s.output)] ]

\* set_output_value for every Output the evaluation wrote
\* a slab written at the position of the Output within its component
\* instead of at its slot (sensitivity variant)
WriteOutputs_AtDeclarationIndex(c, out) ==
    [ k \in DOMAIN slab |->
        IF \E o \in DOMAIN out : IndexOf(Outputs(c), o) = k
        THEN out[CHOOSE o \in DOMAIN out : IndexOf(Outputs(c), o) = k]
        ELSE slab[k] ]

WriteOutputs(c, out) ==
    [ k \in DOMAIN slab |->
        IF \E o \in DOMAIN out : Slot(c, o) = k
        THEN out[CHOOSE o \in DOMAIN out : Slot(c, o) = k]
        ELSE slab[k] ]

CyclicSlots ==
    UNION { { Slot(c, o) : o \in Range(Outputs(c)) } :
            c \in built.cyclic }

NoCycles == built.cyclic = {}

\* the convergence check, tolerance 0: every slot implicated in a cycle
\* kept the value of the previous Iterate pass of this timestep
Converged ==
    \/ NoCycles
    \/ /\ run.passes >= 2
       /\ \A k \in CyclicSlots : slab[k] = previous_slab[k]

\* a cap check that lets one pass too many through (sensitivity variant)
CapReached_OneLate(passes) == passes > IterationCap

CapReached(passes) == passes >= IterationCap

\* a driver that does not record the degraded timestep (sensitivity variant)
RecordDegraded_Silent(degraded, timestep) == degraded

RecordDegraded(degraded, timestep) == degraded \cup {timestep}

\* a driver that commits right after the Finalize pass (sensitivity variant)
PhaseAfterFinalize_Commit == "commit"

PhaseAfterFinalize == "doublecheck"

Begin(phase) == IF run.idx = 1 THEN Append(ghost.phases, phase) ELSE ghost.phases

Start ==
    /\ built.status = "ok"
    /\ run.phase = "start"
    /\ comp' = [c \in DOMAIN comp |-> i_restore_state(c, comp[c])]
    /\ run' = [run EXCEPT !.phase = "iterate", !.idx = 1, !.passes = 0]
    /\ ghost' = [NewTimestep(run.t, ghost.committed, ghost.written)
                     EXCEPT !.phases = << "Start" >>]
    /\ UNCHANGED <<repository, hook, registered, explicit, built, slab, previous_slab>>

\* evaluate the next component of the pass
Evaluate ==
    /\ run.phase \in {"iterate", "finalize"}
    /\ run.idx <= Len(built.order)
    /\ \E c \in {built.order[run.idx]} :
       \E final \in {run.phase = "finalize"} :
       \E in \in {ReadInputs(c)} :
       \E r \in {i_simulate(c, comp[c], in, run.t, final)} :
       \E last \in {run.idx = Len(built.order)} :
          /\ comp' = [comp EXCEPT ![c] = r.self]
          /\ ghost' = [ghost EXCEPT
                 !.phases = Begin(IF final THEN "Finalize" ELSE "Iterate"),
                 !.evaluations[c] = IF final THEN @ ELSE @ + 1,
                 !.final_evaluations[c] = IF final THEN @ + 1 ELSE @,
                 !.inputs[c] = in,
                 !.written = [k \in DOMAIN slab |->
                                 IF \E o \in DOMAIN r.out : Slot(c, o) = k
                                 THEN run.t ELSE @[k]]]
          /\ slab' = WriteOutputs(c, r.out)
          /\ IF r.raised
             THEN run' = [run EXCEPT !.phase = "failed",
                                     !.failure = Failure("evaluate", c, run.t)]
             ELSE run' = [run EXCEPT
                         !.idx = IF last /\ final THEN 1 ELSE @ + 1,
                         !.passes = IF last /\ ~final THEN @ + 1 ELSE @,
                         !.phase = IF last /\ final THEN PhaseAfterFinalize ELSE @]
    /\ UNCHANGED <<repository, hook, registered, explicit, built, previous_slab>>

PassComplete == run.phase = "iterate" /\ run.idx = Len(built.order) + 1

ConvergedFinalize ==
    /\ PassComplete
    /\ Converged
    /\ run' = [run EXCEPT !.phase = "finalize", !.idx = 1]
    /\ UNCHANGED <<repository, comp, hook, registered, explicit, built, slab, previous_slab, ghost>>

IterateAgain ==
    /\ PassComplete
    /\ ~Converged
    /\ ~CapReached(run.passes)
    /\ previous_slab' = slab
    /\ run' = [run EXCEPT !.idx = 1]
    /\ UNCHANGED <<repository, comp, hook, registered, explicit, built, slab, ghost>>

CapExceededProceed ==
    /\ PassComplete
    /\ ~Converged
    /\ CapReached(run.passes)
    /\ ~run.fail_on_nonconvergence
    /\ run' = [run EXCEPT !.phase = "finalize", !.idx = 1,
                          !.degraded = RecordDegraded(@, run.t)]
    /\ ghost' = [ghost EXCEPT !.unconverged = TRUE]
    /\ UNCHANGED <<repository, comp, hook, registered, explicit, built, slab, previous_slab>>

CapExceededFail ==
    /\ PassComplete
    /\ ~Converged
    /\ CapReached(run.passes)
    /\ run.fail_on_nonconvergence
    /\ run' = [run EXCEPT !.phase = "failed",
                          !.failure = Failure("convergence", "none", run.t)]
    /\ ghost' = [ghost EXCEPT !.unconverged = TRUE]
    /\ UNCHANGED <<repository, comp, hook, registered, explicit, built, slab, previous_slab>>

Doublecheck ==
    /\ run.phase = "doublecheck"
    /\ LET c == built.order[run.idx]
       IN /\ FALSE \in i_doublecheck(c)
          /\ ghost' = [ghost EXCEPT !.phases = Begin("Doublecheck"),
                                    !.checked = @ \cup {c}]
          /\ run' = IF run.idx = Len(built.order)
                    THEN [run EXCEPT !.phase = "commit", !.idx = 1]
                    ELSE [run EXCEPT !.idx = @ + 1]
    /\ UNCHANGED <<repository, comp, hook, registered, explicit, built, slab, previous_slab>>

DoublecheckRaises ==
    /\ run.phase = "doublecheck"
    /\ LET c == built.order[run.idx]
       IN /\ TRUE \in i_doublecheck(c)
          /\ ghost' = [ghost EXCEPT !.phases = Begin("Doublecheck"),
                                    !.checked = @ \cup {c}]
          /\ run' = [run EXCEPT !.phase = "failed",
                                !.failure = Failure("doublecheck", c, run.t)]
    /\ UNCHANGED <<repository, comp, hook, registered, explicit, built, slab, previous_slab>>

SaveState ==
    /\ run.phase = "commit"
    /\ LET c == built.order[run.idx]
       IN /\ comp' = [comp EXCEPT ![c] = i_save_state(c, @)]
          /\ ghost' = [ghost EXCEPT !.phases = Begin("Commit"),
                                    !.commits[c] = @ + 1,
                                    !.committed[c] = CurrentState(c, comp[c])]
          /\ run' = IF run.idx < Len(built.order)
                    THEN [run EXCEPT !.idx = @ + 1]
                    ELSE [run EXCEPT !.t = @ + 1, !.idx = 1,
                              !.phase = IF run.t + 1 < MaxTimestep
                                        THEN "start" ELSE "done"]
    /\ UNCHANGED <<repository, hook, registered, explicit, built, slab, previous_slab>>

\* the steps of the driver's loop
Drive ==
    \/ Start
    \/ Evaluate
    \/ ConvergedFinalize
    \/ IterateAgain
    \/ CapExceededProceed
    \/ CapExceededFail
    \/ Doublecheck
    \/ DoublecheckRaises
    \/ SaveState

Next == Assemble \/ Drive

(***************************************************************************)
(* Runs assembled one after the other in one process: the components are   *)
(* constructed against the Shared Context Store.                           *)
(***************************************************************************)
SetHeatingTemperatures == {20}
SetCoolingTemperatures == {24}
HeatingSystems == {RADIATOR, FLOORHEATING}

RepositoryInit ==
    /\ comp = << >>
    /\ hook = [c |-> "none", X |-> << >>, committed |-> FALSE,
               last |-> "init", calls |-> 0]
    /\ registered = << >>
    /\ explicit = {}
    /\ built = NotBuilt
    /\ NoDriver
    /\ NoRepository

\* the constructor ran against the store of the process (r) and, for
\* comparison, against a store that was empty when this run began (a)
ConstructComponent(class, r, a) ==
    /\ singleton_sim_repository' = r.store
    /\ process' = [process EXCEPT
           !.constructed = Append(@, class),
           !.raised = r.raised,
           !.log = @ \o r.ops,
           !.alone = a.store,
           !.raised_alone = a.raised]
    /\ UNCHANGED <<comp, hook, registered, explicit, built, driver>>

CanConstruct ==
    /\ ~process.raised
    /\ ~process.raised_alone
    /\ Len(process.constructed) < MaxConstructed

ConstructBuilding ==
    /\ CanConstruct
    /\ \E d \in ReferenceDemands :
         ConstructComponent(BLD, Building_init(singleton_sim_repository, d),
                            Building_init(process.alone, d))

ConstructHeatDistribution ==
    /\ CanConstruct
    /\ \E h \in HeatingSystems :
         ConstructComponent("HeatDistribution",
                            HeatDistribution_init(singleton_sim_repository, h),
                            HeatDistribution_init(process.alone, h))

ConstructHeatDistributionController ==
    /\ CanConstruct
    /\ \E sh \in SetHeatingTemperatures : \E sc \in SetCoolingTemperatures :
         ConstructComponent(HDC,
                            HeatDistributionController_init(singleton_sim_repository, sh, sc),
                            HeatDistributionController_init(process.alone, sh, sc))

\* the caller begins to assemble the next run; the components reach the
\* store as SingletonSimRepository(), which no run hands to them
StartNextRun ==
    /\ process.run < MaxRuns
    /\ process.constructed # << >>
    /\ process' = [process EXCEPT !.run = @ + 1, !.constructed = << >>,
                                  !.raised = FALSE, !.alone = EmptyStore,
                                  !.raised_alone = FALSE]
    /\ UNCHANGED <<comp, hook, registered, explicit, built, driver,
                   singleton_sim_repository>>

RepositoryNext ==
    \/ ConstructBuilding
    \/ ConstructHeatDistribution
    \/ ConstructHeatDistributionController
    \/ StartNextRun

vars == <<comp, hook, registered, explicit, built, run, slab, previous_slab, ghost,
          singleton_sim_repository, process>>

SpecRepository == RepositoryInit /\ [][RepositoryNext]_vars

SpecHooks == HooksInit /\ [][HooksNext]_vars

SpecHeatPump == HeatPumpInit /\ [][HeatPumpNext]_vars

SpecGrid == GridInit /\ [][GridNext]_vars

SpecAssembly == AssemblyInit /\ [][AssemblyNext]_vars

Spec == Init /\ [][Next]_vars

\* the driver is a loop that runs on until the run is done or has failed
FairSpec == Spec /\ WF_vars(Drive)


(***************************************************************************)
(* Claims about the hooks (SpecHooks).                                     *)
(***************************************************************************)
\* C1: commit/restore is a round trip for every stateful component: when the
\* state-commit hook ran with current State X and the restore hook has just
\* run (after any evaluations in between), the current State is X again.
C1_RoundTrip ==
    (hook.committed /\ hook.last = "restore")
        => CurrentState(hook.c, comp[hook.c]) = hook.X

\* C1, for the components whose restore hook reads the committed State and
\* whose evaluation leaves it alone (GasHeaterController, Battery,
\* HeatPumpHplib): the round trip holds.
C1_RoundTripOfCloningComponents ==
    (hook.c \in {GHC, BAT, HP} /\ hook.committed /\ hook.last = "restore")
        => CurrentState(hook.c, comp[hook.c]) = hook.X

\* a hook other than the state-commit hook has just been called
CalledOtherThanSave == hook'.calls = hook.calls + 1 /\ hook'.last # "save"

\* C21: between two commits the committed (previous) State of a component is
\* never modified: an evaluation or a restore leaves it as it was, only the
\* state-commit hook writes it; in particular no call of
\* L2_Controller.i_simulate changes a field of previous_state.
C21_OnlyCommitWritesCommittedState ==
    [][ CalledOtherThanSave
          => CommittedState(hook.c, comp'[hook.c]) = CommittedState(hook.c, comp[hook.c]) ]_vars

\* C21, for the components other than L2_Controller: the committed State is
\* written by the state-commit hook only.
C21_OnlyCommitWritesCommittedStateButForL2Controller ==
    [][ (CalledOtherThanSave /\ hook.c # L2C)
          => CommittedState(hook.c, comp'[hook.c]) = CommittedState(hook.c, comp[hook.c]) ]_vars

\* i_simulate has just been called
Evaluated == hook'.calls = hook.calls + 1 /\ hook'.last = "simulate"

SkippingComponents == {HP, HPL1, HD, HDC}

\* C22: an evaluation with force_convergence = true of HeatPumpHplib,
\* HeatPumpHplibControllerL1, HeatDistribution or HeatDistributionController
\* writes no Output slot, does not raise and leaves the component, its current
\* State and controller mode included, as it was before the call.
C22_FinalEvaluationIsSkipped ==
    [][ (Evaluated /\ hook.c \in SkippingComponents /\ hook'.call.force_convergence)
          => /\ hook'.call.out = << >>
             /\ ~hook'.call.raised
             /\ comp' = comp ]_vars

\* C22 witness: a HeatDistribution that delivered 1046 W in a non-final
\* evaluation has just been evaluated with force_convergence = true, and a
\* HeatPumpHplibControllerL1 that was switched on likewise.
C22_Witness ==
    /\ hook.last = "simulate"
    /\ hook.call.force_convergence
    /\ \/ hook.c = HD /\ comp[HD].thermal_power_delivered_in_watt = 1046
       \/ hook.c = HPL1 /\ comp[HPL1].controller_heatpumpmode = "on"

\* a non-final evaluation of c has just been repeated with the inputs of the
\* non-final evaluation right before it, nothing restored in between
Repeated(c) ==
    /\ Evaluated
    /\ hook.c = c
    /\ hook.last = "simulate"
    /\ ~hook.call.force_convergence
    /\ ~hook'.call.force_convergence
    /\ hook'.call.in = hook.call.in

GasValveStable ==
    /\ comp'[GHC].controller_gas_valve_mode = comp[GHC].controller_gas_valve_mode
    /\ hook'.call.out = hook.call.out

\* the mode is 'open' or 'close', and the State written is 1 exactly when
\* the mode is 'open'
GasValveModeAndState ==
    hook.c = GHC
        => /\ comp[GHC].controller_gas_valve_mode \in {"open", "close"}
           /\ hook.last = "simulate"
                => hook.call.out.State
                     = (IF comp[GHC].controller_gas_valve_mode = "open" THEN 1 ELSE 0)

\* C23: for fixed input temperatures GasHeaterController has a stable valve
\* mode after one non-final evaluation: a second non-final evaluation with
\* the same residence and water-boiler temperature leaves the mode and the
\* State written unchanged; the mode is always 'open' or 'close' and the
\* State output is 1 exactly when the mode is 'open'.
C23_GasValveStableAfterOneEvaluation ==
    [](GasValveModeAndState) /\ [][ Repeated(GHC) => GasValveStable ]_vars

\* an input temperature lies in the band of width offset below its set
\* temperature, where the valve closes when open and opens when closed
InOffsetBand(in) ==
    \/ /\ in.ResidenceTemperature >= set_heating_temperature_residence_in_celsius - offset
       /\ in.ResidenceTemperature < set_heating_temperature_residence_in_celsius
    \/ /\ in.WaterBoilerTemperatureInput >= set_temperature_water_boiler_in_celsius - offset
       /\ in.WaterBoilerTemperatureInput < set_temperature_water_boiler_in_celsius

\* C23, what holds: mode and State are as the claim says, and the mode is
\* stable after one evaluation when no input lies in the offset band.
C23_GasValveStableOutsideOffsetBand ==
    /\ [](GasValveModeAndState)
    /\ [][ (Repeated(GHC) /\ ~InOffsetBand(hook.call.in)) => GasValveStable ]_vars

\* a non-final evaluation of c has just been made
EvaluatedNonFinal(c) == Evaluated /\ hook.c = c /\ ~hook'.call.force_convergence

NoDemandAndWarm(in) ==
    /\ in.TheoreticalThermalBuildingDemand = 0
    /\ in.DailyAverageOutsideTemperature > set_heating_threshold_temperature_in_celsius

DemandOrCold(in) ==
    \/ in.TheoreticalThermalBuildingDemand # 0
    \/ in.DailyAverageOutsideTemperature < set_heating_threshold_temperature_in_celsius

C25_Switching ==
    LET before == comp[HDC].controller_heat_distribution_mode
        after == comp'[HDC].controller_heat_distribution_mode
    IN EvaluatedNonFinal(HDC)
         => /\ (before = "on" /\ after = "off") => NoDemandAndWarm(hook'.call.in)
            /\ (before = "off" /\ after = "on") => DemandOrCold(hook'.call.in)
            /\ hook'.call.out.State = (IF after = "on" THEN 1 ELSE 0)

\* C25: the mode of HeatDistributionController is always 'on' or 'off'; a
\* non-final evaluation switches on to off only when the demand is 0 and the
\* daily average outside temperature is above the heating threshold, off to
\* on only when the demand is non-zero or that temperature is below the
\* threshold, keeps the mode otherwise, and writes State = 1 exactly when
\* the resulting mode is 'on'.
C25_HeatDistributionControllerMode ==
    /\ [](hook.c = HDC => comp[HDC].controller_heat_distribution_mode \in {"on", "off"})
    /\ [][C25_Switching]_vars

\* C25 witness: a controller committed in mode 'on' has been switched off
\* by a non-final evaluation without demand on a warm day, and wrote State 0.
C25_Witness ==
    /\ hook.c = HDC
    /\ hook.committed
    /\ hook.X.mode = "on"
    /\ hook.last = "simulate"
    /\ ~hook.call.force_convergence
    /\ NoDemandAndWarm(hook.call.in)
    /\ comp[HDC].controller_heat_distribution_mode = "off"
    /\ hook.call.out.State = 0

\* HeatDistribution has just exchanged heat: a non-final evaluation with
\* the controller's State 1 and a positive water mass flow
HeatExchanged ==
    /\ hook.c = HD
    /\ hook.last = "simulate"
    /\ ~hook.call.force_convergence
    /\ hook.call.in.State = 1
    /\ comp[HD].heating_distribution_system_water_mass_flow_rate_in_g_per_second > 0

\* C26: the heat exchange of HeatDistribution with a positive water mass
\* flow. Demand > 0 and input warmer than the residence: the returned water
\* is not below the residence temperature and not above the input
\* temperature, the delivered power is >= 0 and <= the demand. Demand > 0
\* with an input not warmer than the residence, or demand 0: the output
\* temperature is the input temperature and the power is 0. Demand < 0 is
\* symmetric: output not above the residence temperature, power between the
\* demand and 0.
C26_HeatExchange ==
    HeatExchanged =>
        LET demand  == hook.call.in.TheoreticalThermalBuildingDemand
            t_in    == hook.call.in.WaterTemperatureInput
            t_res   == hook.call.in.ResidenceTemperatureIndoorAir
            t_out   == hook.call.out.WaterTemperatureOutput
            power   == hook.call.out.ThermalPowerDelivered
        IN /\ ~hook.call.raised
           /\ (demand > 0 /\ t_in > t_res)
                => /\ t_out >= t_res /\ t_out <= t_in
                   /\ power >= 0 /\ power <= demand
           /\ (demand < 0 /\ t_in < t_res)
                => /\ t_out <= t_res /\ t_out >= t_in
                   /\ power <= 0 /\ power >= demand
           /\ (demand = 0 \/ (demand > 0 /\ t_in <= t_res) \/ (demand < 0 /\ t_in >= t_res))
                => t_out = t_in /\ power = 0

\* C26 witness: a demand of 5230 W would cool water of 22 degrees to 17, below
\* the residence at 20; the water returns at 20 and 2092 W are delivered.
C26_Witness ==
    /\ HeatExchanged
    /\ hook.call.in.TheoreticalThermalBuildingDemand = 5230
    /\ hook.call.in.WaterTemperatureInput = 22
    /\ hook.call.in.ResidenceTemperatureIndoorAir = 20
    /\ hook.call.out.WaterTemperatureOutput = 20
    /\ hook.call.out.ThermalPowerDelivered = 2092

\* a non-final evaluation of an L2_Controller without cooling whose
\* ElectricityTarget input, a mandatory one, has a source
HeatingOnlyEvaluated ==
    /\ hook.c = L2C
    /\ hook.last = "simulate"
    /\ ~hook.call.force_convergence
    /\ comp[L2C].wired
    /\ ~comp[L2C].config.cooling_considered
    /\ comp[L2C].config.T_min_heating <= comp[L2C].config.T_max_heating
    /\ comp[L2C].config.T_tolerance >= 0

\* C29: with cooling_considered = false, T_min_heating <= T_max_heating and
\* T_tolerance >= 0, after every non-final evaluation of L2_Controller the
\* l2_DeviceSignal output is 1 whenever the reference temperature is below
\* T_min_heating - T_tolerance and 0 whenever it is above T_max_heating +
\* T_tolerance, whatever the electricity target, the L1 run-time signal and
\* the state before the call; the output is always 0 or 1.
C29_ComfortLimitsOverride ==
    HeatingOnlyEvaluated =>
        LET cfg == comp[L2C].config
            T_control == hook.call.in.ReferenceTemperature
        IN /\ ~hook.call.raised
           /\ hook.call.out.l2_DeviceSignal \in {0, 1}
           /\ T_control < cfg.T_min_heating - cfg.T_tolerance
                => hook.call.out.l2_DeviceSignal = 1
           /\ T_control > cfg.T_max_heating + cfg.T_tolerance
                => hook.call.out.l2_DeviceSignal = 0

\* C29 witness: a controller that has switched twice in the timestep, so that
\* its state is compulsory, reads 40 degrees with no surplus electricity and
\* writes 1.
C29_Witness ==
    /\ HeatingOnlyEvaluated
    /\ hook.call.in.ReferenceTemperature = 40
    /\ hook.call.in.ElectricityTarget = 0
    /\ comp[L2C].state.count = 3
    /\ hook.call.out.l2_DeviceSignal = 1

\* C29, the evaluation the claim does not reach: without a source for
\* ElectricityTarget the non-final evaluation raises and writes nothing.
C29_WithoutElectricityTargetRaises ==
    (hook.c = L2C /\ hook.last = "simulate" /\ ~hook.call.force_convergence
       /\ ~comp[L2C].wired)
      => hook.call.raised /\ hook.call.out = << >>

\* the State a HeatingWaterStorage is constructed with
InitialStorageState ==
    LET config == comp[HWS].waterstorageconfig
    IN HeatingWaterStorageState(0,
           config.mean_water_temperature_in_storage_in_celsius,
           config.cool_water_temperature_in_storage_in_celsius,
           config.hot_water_temperature_in_storage_in_celsius)

\* C30: HeatingWaterStorage.i_simulate never modifies self.state: after any
\* number of evaluations, commits and restores, state and previous_state both
\* equal the initial state built from the config, and the previous mean water
\* temperature of every mixing calculation is the configured initial mean
\* temperature.
C30_StorageStateNeverMoves ==
    hook.c = HWS =>
        /\ comp[HWS].state = InitialStorageState
        /\ comp[HWS].previous_state = InitialStorageState
        /\ hook.last = "simulate" =>
              comp[HWS].mean_water_temperature_in_water_storage =
                  HWS_calculate_mean_water_temperature_in_water_storage(
                      hook.call.in.WaterTemperatureFromHeatDistributionSystem,
                      hook.call.in.WaterTemperaturefromHeatGenerator,
                      hook.call.in.WaterMassFlowRateFromHeatGenerator,
                      hook.call.in.WaterMassFlowRateFromHeatDistributionSystem,
                      comp[HWS].water_mass_in_storage_in_kg,
                      comp[HWS].waterstorageconfig.mean_water_temperature_in_storage_in_celsius,
                      seconds_per_timestep)

\* C30 witness: a storage configured at 40 degrees that has been evaluated
\* with both flows running, an evaluation that computes a mean above 40, and
\* is evaluated once more after a commit in between.
C30_Witness ==
    /\ hook.c = HWS
    /\ hook.last = "simulate"
    /\ hook.calls >= 3
    /\ hook.committed
    /\ comp[HWS].waterstorageconfig.mean_water_temperature_in_storage_in_celsius = 40
    /\ hook.call.in.WaterMassFlowRateFromHeatGenerator = 1
    /\ comp[HWS].mean_water_temperature_in_water_storage > 40000
    /\ comp[HWS].state.mean_water_temperature_in_storage_in_celsius = 40

(***************************************************************************)
(* Claims about the heat pump (SpecHeatPump).                              *)
(***************************************************************************)
\* C24: HeatPumpHplib realizes a minimum on time and a minimum off time of
\* 600 s: no evaluation switches it from the mode it is in (heating 1,
\* cooling -1, off 0) to another mode before the current uninterrupted run of
\* that mode has lasted 600 s, whatever the OnOffSwitch input is and whatever
\* runs came before.
C24_MinimumTimeInMode ==
    [][ hook'.on_off # hook.on_off => hook.time_in_mode >= time_on_min ]_vars

\* C24, what holds: the minimum off time, and the minimum time of a run of
\* heating or cooling that is the first run of that mode.
C24_MinimumOffTimeAndFirstRuns ==
    [][ (/\ hook'.on_off # hook.on_off
         /\ \/ hook.on_off = 0
            \/ hook.on_off = 1 /\ comp[HP].state.time_on = hook.time_in_mode
            \/ hook.on_off = -1 /\ comp[HP].state.time_on_cooling = hook.time_in_mode)
          => hook.time_in_mode >= time_on_min ]_vars

(***************************************************************************)
(* Claims about ElectricityGrid and CalculateOperation (SpecGrid).         *)
(***************************************************************************)
\* the call `name` has just been made
GridCall(name) == hook'.calls = hook.calls + 1 /\ hook'.last = name

Fresh(self) == self.inputs = << >> /\ self.operations = << >>

C27_AddOperation ==
    GridCall("add_operation")
      => /\ ~hook'.raised
              => /\ Len(comp[hook.c].inputs) = Len(comp[hook.c].operations) + 1
                 /\ hook'.arg \in Available(hook.c)
         /\ hook'.raised => comp'[hook.c].operations = comp[hook.c].operations

C27_ConnectAll ==
    GridCall("connect_all")
      => /\ (~hook'.arg.is_list \/ Len(hook'.arg.items) % 2 = 0)
              => hook'.raised /\ comp'[EG].inputs = comp[EG].inputs
         /\ (~hook'.raised /\ Fresh(comp[EG]))
              => Len(comp'[EG].inputs) = Len(comp'[EG].operations) + 1

\* i_simulate right after a successful connect_all on a fresh grid
C27_SimulateInRange ==
    (GridCall("i_simulate") /\ hook.history = << "connect_all" >> /\ ~hook.raised)
      => ~hook'.raised

\* C27: for ElectricityGrid and CalculateOperation, add_operation succeeds
\* only when exactly one more input than operations is connected and the
\* operation is in operations_available, and a failing add_operation raises
\* and leaves the operations unchanged. After a successful connect_all on an
\* odd-length list on a fresh grid len(inputs) = len(operations) + 1, so
\* i_simulate reads no operation out of range; connect_all on a non-list or
\* on an even-length list raises before any input is added.
C27_OperationsMatchInputs ==
    [][ C27_AddOperation /\ C27_ConnectAll /\ C27_SimulateInRange ]_vars

\* C27 witness: a fresh grid was given [PV, Sum, PV] by connect_all and then
\* evaluated: two inputs, one operation, no exception.
C27_Witness ==
    /\ hook.c = EG
    /\ hook.history = << "connect_all", "i_simulate" >>
    /\ ~hook.raised
    /\ comp[EG].inputs = << "PV", "PV" >>
    /\ comp[EG].operations = << "Sum" >>

\* the left-to-right fold of the first n values
RECURSIVE LeftFold(_, _, _)
LeftFold(operations, values, n) ==
    IF n = 0 THEN 0
    ELSE IF n = 1 THEN values[1]
    ELSE IF operations[n - 1] = "Sum"
         THEN LeftFold(operations, values, n - 1) + values[n]
         ELSE LeftFold(operations, values, n - 1) - values[n]

Signed(signal, total) ==
    IF signal = "Positive" /\ total < 0 THEN 0
    ELSE IF signal = "Negative" /\ total > 0 THEN 0
    ELSE total

\* C28: ElectricityGrid.i_simulate writes to ElectricityOutput the
\* left-to-right fold of its inputs (plus or minus each following input as
\* its operation is 'Sum' or 'Subtract'), replaced by max(0, total) with
\* signal 'Positive' and by min(0, total) with 'Negative', so the output is
\* never negative with 'Positive' and never positive with 'Negative'; an
\* operation other than 'Sum' and 'Subtract' raises, and no output is written.
C28_GridOutputIsSignedFold ==
    (hook.c = EG /\ hook.last = "i_simulate"
       /\ Len(hook.arg) <= Len(hook.before.operations) + 1)
      => LET operations == hook.before.operations
             values == hook.arg
             known == \A i \in 1 .. Len(values) - 1 : operations[i] \in {"Sum", "Subtract"}
         IN /\ known
                 => /\ ~hook.raised
                    /\ hook.out.ElectricityOutput
                          = Signed(hook.before.signal,
                                   LeftFold(operations, values, Len(values)))
                    /\ hook.before.signal = "Positive" => hook.out.ElectricityOutput >= 0
                    /\ hook.before.signal = "Negative" => hook.out.ElectricityOutput <= 0
            /\ ~known => hook.raised /\ hook.out = << >>

\* C28 witness: a grid with signal 'Positive' read -5 and 3 with the
\* operation Sum and wrote 0, not -2.
C28_Witness ==
    /\ hook.c = EG
    /\ hook.last = "i_simulate"
    /\ hook.before.signal = "Positive"
    /\ hook.before.operations = << "Sum" >>
    /\ hook.arg = << -5, 3 >>
    /\ hook.out = [ElectricityOutput |-> 0]

\* C28 witness of the exception: a grid whose operations hold 'Multiply'
\* raised and wrote nothing.
C28_WitnessOfInvalidOperation ==
    /\ hook.c = EG
    /\ hook.last = "i_simulate"
    /\ hook.before.operations = << "Multiply" >>
    /\ Len(hook.arg) = 2
    /\ hook.raised
    /\ hook.out = << >>

(***************************************************************************)
(* Claims about assembly (SpecAssembly).                                   *)
(***************************************************************************)
Unsourced == { p \in Ports : Source(p[1], p[2]) = NoSource }

\* C9: once the graph is built, assembly succeeded exactly when every
\* mandatory Input has a resolved source (explicit or default); otherwise it
\* failed, with a missing-connection error naming the component and the
\* input for each mandatory Input without a source, and for no other Input.
\* Unwired L2_Controller.l1_RunTimeSignal and SumBuilderForTwoInputs
\* 'Input 2' alone never make it fail.
C9_AssemblyValidatesMandatoryInputs ==
    built # NotBuilt =>
        /\ (Missing = {}) <=> (built.status = "ok")
        /\ Missing # {} => built.status = "error"
        /\ \A p \in Ports :
             (Error("missing connection", p) \in built.errors)
                 <=> (Mandatory(p[1], p[2]) /\ Source(p[1], p[2]) = NoSource)
        /\ (Unsourced \subseteq { <<L2C, "l1_RunTimeSignal">>, <<SUM, "Input 2">> })
               => built.status = "ok"

\* C9 witness: a failed build that names an unwired mandatory Input of a
\* component whose optional Input is unwired too
C9_Witness ==
    /\ built.status = "error"
    /\ Error("missing connection", <<SUM, "Input 1">>) \in built.errors
    /\ <<SUM, "Input 2">> \in Unsourced

\* a successful build with an unwired optional Input
C9_SucceedsWithOptionalInputUnwired ==
    /\ built.status = "ok"
    /\ <<SUM, "Input 2">> \in Unsourced
    /\ <<L2C, "l1_RunTimeSignal">> \in Unsourced

\* C10: an Input without explicit connection whose default offers match
\* more than one registered component makes the build fail and stays
\* unwired; so does L2_Controller.ReferenceTemperature with a Building and a
\* Boiler registered.
C10_AmbiguousDefaultFails ==
    built # NotBuilt =>
        /\ \A p \in Ports :
             (~HasExplicit(p[1], p[2]) /\ Cardinality(Candidates(p[1], p[2])) > 1)
                 => /\ built.status = "error"
                    /\ Error("ambiguous default connection", p) \in built.errors
                    /\ Source(p[1], p[2]) = NoSource
        /\ ( {L2C, BLD, BOILER} \subseteq Range(registered)
             /\ ~HasExplicit(L2C, "ReferenceTemperature") )
               => /\ built.status = "error"
                  /\ Error("ambiguous default connection",
                           <<L2C, "ReferenceTemperature">>) \in built.errors
                  /\ Source(L2C, "ReferenceTemperature") = NoSource

\* C10 witness: a build with L2_Controller, Building and Boiler registered
\* and ReferenceTemperature not connected explicitly
C10_Witness ==
    /\ built # NotBuilt
    /\ {L2C, BLD, BOILER} \subseteq Range(registered)
    /\ ~HasExplicit(L2C, "ReferenceTemperature")

\* C11: after assembly an Input with an explicit connection has exactly the
\* connection's producer and output as its source, whatever its component
\* offers by default; an Input without one has a source only from a default
\* offer whose partner is registered.
C11_ExplicitConnectionWins ==
    built # NotBuilt =>
        /\ \A e \in explicit :
             Source(e.consumer, e.input) = [producer |-> e.producer, output |-> e.output]
        /\ \A p \in Ports :
             (~HasExplicit(p[1], p[2]) /\ Source(p[1], p[2]) # NoSource)
                 => Source(p[1], p[2]) \in Candidates(p[1], p[2])

\* C11 witness: the controller's residence temperature is connected to
\* another Output of the Building than the one its default offer names
C11_Witness ==
    /\ built # NotBuilt
    /\ Conn(GHC, "ResidenceTemperature", BLD, "InitialInternalTemperature") \in explicit
    /\ Candidates(GHC, "ResidenceTemperature")
           = { [producer |-> BLD, output |-> "TemperatureMean"] }

\* the position of a component in the evaluation order
Position(c) == IndexOf(built.order, c)

\* C14: the evaluation order holds every registered component exactly once;
\* the producer of a connection precedes its consumer unless both lie on a
\* common cycle; the components of a common cycle appear in registration order.
C14_EvaluationOrder ==
    built.status = "ok" =>
        /\ Len(built.order) = Len(registered)
        /\ Range(built.order) = Range(registered)
        /\ \A e \in Edges :
             ~OnCommonCycle(e[1], e[2], Edges) => Position(e[1]) < Position(e[2])
        /\ \A a, b \in Range(registered) :
             (/\ OnCommonCycle(a, b, Edges)
              /\ IndexOf(registered, a) < IndexOf(registered, b))
                 => Position(a) < Position(b)

\* C14 witness: the controller and the sum builder feed each other, and the
\* Building, registered last, feeds the controller alone
C14_Witness ==
    /\ built.status = "ok"
    /\ registered = << L2C, SUM, BLD >>
    /\ OnCommonCycle(L2C, SUM, Edges)
    /\ <<BLD, L2C>> \in Edges
    /\ <<BLD, SUM>> \notin Edges
    /\ built.order = << BLD, L2C, SUM >>

(***************************************************************************)
(* Claims about the Timestep Driver (Spec, FairSpec).                      *)
(***************************************************************************)
Running == built.status = "ok"

AtStartOfTimestep == Running /\ run.phase = "iterate" /\ run.passes = 0 /\ run.idx = 1

\* the history is that of a timestep that has been committed
TimestepEnded == Running /\ run.phase \in {"start", "done"} /\ run.t > 0

\* C2: after the Start phase of a timestep and before its first evaluation,
\* every component's current State is the State its last commit stored (its
\* initial State in the first timestep), and so is its committed State.
C2_StartFromCommittedState ==
    AtStartOfTimestep =>
        \A c \in Range(registered) :
            /\ CurrentState(c, comp[c]) = ghost.committed[c]
            /\ CommittedState(c, comp[c]) = ghost.committed[c]

\* C2 witness: a later timestep starts with the gas valve committed open
C2_Witness ==
    /\ AtStartOfTimestep
    /\ run.t > 0
    /\ GHC \in Range(registered)
    /\ ghost.committed[GHC] = [mode |-> "open"]

PhaseOrder ==
    { << "Start", "Iterate" >>, << "Iterate", "Iterate" >>,
      << "Iterate", "Finalize" >>, << "Finalize", "Doublecheck" >>,
      << "Doublecheck", "Commit" >> }

\* C3: the phases of a timestep begin in the order Start, Iterate (once or
\* more), Finalize (once), Doublecheck, Commit; no component is committed
\* twice, none before every component had its final evaluation and its
\* doublecheck, and a timestep that ended committed every component once.
C3_PhaseOrderAndSingleCommit ==
    Running =>
        /\ ghost.phases # << >> => ghost.phases[1] = "Start"
        /\ \A k \in 1 .. (Len(ghost.phases) - 1) :
             << ghost.phases[k], ghost.phases[k + 1] >> \in PhaseOrder
        /\ \A c \in Range(registered) :
             /\ ghost.commits[c] <= 1
             /\ ghost.final_evaluations[c] <= 1
             /\ ghost.final_evaluations[c] = 1 => ghost.evaluations[c] >= 1
             /\ c \in ghost.checked =>
                  \A d \in Range(registered) : ghost.final_evaluations[d] = 1
             /\ ghost.commits[c] = 1 =>
                  \A d \in Range(registered) :
                      ghost.final_evaluations[d] = 1 /\ d \in ghost.checked
        /\ TimestepEnded => \A c \in Range(registered) : ghost.commits[c] = 1

\* C3 witness: a timestep with more than one Iterate pass has ended
C3_Witness ==
    /\ TimestepEnded
    /\ Len(ghost.phases) > 5
    /\ ghost.phases[Len(ghost.phases)] = "Commit"

DoublecheckFailed == Running /\ run.failure.phase = "doublecheck"

\* C4: once a doublecheck raised in timestep t, the run has failed in t, no
\* commit hook ran in t and every component's committed State is the one
\* stored at the end of timestep t-1.
C4_FailedDoublecheckCommitsNothing ==
    DoublecheckFailed =>
        /\ run.phase = "failed"
        /\ run.t = run.failure.timestep
        /\ \A c \in Range(registered) :
             /\ ghost.commits[c] = 0
             /\ CommittedState(c, comp[c]) = ghost.committed[c]

\* the driver itself calls no commit hook once a doublecheck raised
C4_NoCommitHookAfterFailedDoublecheck ==
    DoublecheckFailed =>
        /\ run.phase = "failed"
        /\ run.t = run.failure.timestep
        /\ \A c \in Range(registered) : ghost.commits[c] = 0

\* the same, with the committed State, for the components other than
\* L2_Controller
C4_CommittedStateKeptButForL2Controller ==
    DoublecheckFailed =>
        \A c \in Range(registered) \ {L2C} :
            CommittedState(c, comp[c]) = ghost.committed[c]

\* C5: no timestep has more Iterate passes than the iteration cap, and a
\* timestep that began iterating is later committed or the run has failed.
C5_ConvergenceLoopTerminates ==
    /\ [](Running => run.passes <= IterationCap)
    /\ \A t \in 0 .. (MaxTimestep - 1) :
         (Running /\ run.t = t /\ run.phase = "iterate")
             ~> \/ run.phase = "failed"
                \/ /\ run.t = t + 1
                   /\ \A c \in Range(registered) : ghost.commits[c] = 1

\* C5 witness: the cap was reached with the cyclic slots still changing and
\* the timestep went on to its commit
C5_Witness ==
    /\ Running
    /\ ghost.unconverged
    /\ run.passes = IterationCap
    /\ run.phase = "commit"

\* C6: a timestep whose cap was reached without convergence either failed
\* the run with a convergence failure (configuration: fail) or is recorded
\* as degraded, after no further Iterate pass, and is committed like that
\* (configuration: proceed).
C6_UnconvergedIsFailedOrDegraded ==
    (Running /\ ghost.unconverged) =>
        IF run.fail_on_nonconvergence
        THEN /\ run.phase = "failed"
             /\ run.failure = Failure("convergence", "none", ghost.timestep)
             /\ ghost.timestep \notin run.degraded
             /\ \A c \in Range(registered) : ghost.commits[c] = 0
        ELSE /\ ghost.timestep \in run.degraded
             /\ run.failure.phase # "convergence"
             /\ run.passes = IterationCap
             /\ TimestepEnded => \A c \in Range(registered) : ghost.commits[c] = 1

\* C6 witness: a timestep that hit the cap unconverged has been committed
C6_Witness ==
    /\ TimestepEnded
    /\ ghost.unconverged
    /\ ghost.timestep \in run.degraded

\* the other outcome: the run failed at the cap
C6_FailedAtCap ==
    /\ Running
    /\ ghost.unconverged
    /\ run.phase = "failed"

\* C7: in a graph without cycles one Iterate pass satisfies the convergence
\* check, and what a component read through a connected Input is what the
\* source wrote to its slot in that same timestep; the sum builder's output
\* is the Building's demand of the timestep.
C7_AcyclicOnePassSameTimestepValue ==
    (Running /\ NoCycles) =>
        /\ run.passes <= 1
        /\ (run.phase \in {"finalize", "doublecheck", "commit"} \/ TimestepEnded)
               => run.passes = 1
        /\ \A c \in Range(registered) : \A i \in InputNames(c) :
             (ghost.evaluations[c] > 0 /\ Source(c, i) # NoSource) =>
                 LET k == Slot(Source(c, i).producer, Source(c, i).output)
                 IN /\ ghost.inputs[c][i] = slab[k]
                    /\ ghost.written[k] = ghost.timestep
        /\ (SUM \in Range(registered) /\ ghost.evaluations[SUM] > 0) =>
               slab[Slot(SUM, "Sum")] =
                   comp[BLD].series[ghost.timestep + 1].TheoreticalThermalBuildingDemand

\* C7 witness: a later timestep of the acyclic household is being committed
\* with a demand that is not zero
C7_Witness ==
    /\ Running
    /\ NoCycles
    /\ run.phase = "commit"
    /\ run.t > 0
    /\ ghost.inputs[SUM]["Input 1"] = 500

\* C8: in a timestep a component outside every cycle is evaluated at most
\* once.
C8_AcyclicComponentEvaluatedOnce ==
    Running =>
        \A c \in Range(registered) \ built.cyclic :
            ghost.evaluations[c] + ghost.final_evaluations[c] <= 1

\* Iterate passes alone: a component outside every cycle is evaluated in at
\* most one of them
C8_AcyclicComponentIteratedOnce ==
    Running =>
        \A c \in Range(registered) \ built.cyclic : ghost.evaluations[c] <= 1

\* every declared Output of a registered component
DeclaredOutputs == UNION { {c} \X Range(Outputs(c)) : c \in Range(registered) }

\* (c, o) is declared before (d, p): registration order, then declaration order
DeclaredBefore(c, o, d, p) ==
    \/ IndexOf(registered, c) < IndexOf(registered, d)
    \/ c = d /\ IndexOf(Outputs(c), o) < IndexOf(Outputs(c), p)

C12_Allocation ==
    /\ \A x \in DeclaredOutputs : SlotIndex(x[1], x[2]) \in 0 .. Cardinality(DeclaredOutputs) - 1
    /\ \A x, y \in DeclaredOutputs :
         /\ x # y => SlotIndex(x[1], x[2]) # SlotIndex(y[1], y[2])
         /\ DeclaredBefore(x[1], x[2], y[1], y[2])
               => SlotIndex(x[1], x[2]) < SlotIndex(y[1], y[2])
    /\ Len(slab) = Cardinality(DeclaredOutputs)
    /\ Len(previous_slab) = Cardinality(DeclaredOutputs)

C12_Stable ==
    \A c \in {WEA, BLD, GH, GHC, HDC, SUM, L2C} : \A o \in Range(Outputs(c)) :
        (c \in Range(registered)) => SlotIndex(c, o)' = SlotIndex(c, o)

\* C12: every Output has one slot index, no two Outputs share one, the indices
\* are 0 .. N-1 in registration order then declaration order, the slab has
\* length N (N the number of declared Outputs), and no slot index changes
\* during the run.
C12_SlotAllocation ==
    [](C12_Allocation) /\ [][C12_Stable]_vars

\* C12 witness: the second timestep of the household whose components declare
\* several Outputs each
C12_Witness ==
    /\ built.status = "ok"
    /\ registered = GasHeaterHousehold.registered
    /\ run.t = 1
    /\ run.phase = "commit"
    /\ SlotIndex(HDC, "HeatingFlowTemperature") = Cardinality(DeclaredOutputs) - 1

\* the slots of the Outputs component c declares
OwnSlots(c) == { Slot(c, o) : o \in Range(Outputs(c)) }

\* C13: one evaluation of a component changes no slot other than the slots
\* of that component's own Outputs.
C13_EvaluateChangesOnlyOwnSlots ==
    [][ (run.phase \in {"iterate", "finalize"} /\ run.idx <= Len(built.order))
          => \A k \in DOMAIN slab :
                slab'[k] # slab[k] => k \in OwnSlots(built.order[run.idx]) ]_vars

\* C13 witness: the gas heater has just been evaluated in the second timestep,
\* it wrote its gas power, and the slots of the Building and of the controller
\* hold values
C13_Witness ==
    /\ registered = GasHeaterHousehold.registered
    /\ run.phase = "iterate"
    /\ run.t = 1
    /\ run.idx <= Len(built.order)
    /\ run.idx > 1
    /\ built.order[run.idx - 1] = GH
    /\ slab[Slot(GH, "GasPower")] > 0
    /\ slab[Slot(GHC, "State")] = 1
    /\ slab[Slot(BLD, "TemperatureMean")] > 0

\* an evaluation raised and the run has failed
EvaluateFailed == run.phase = "failed" /\ run.failure.phase = "evaluate"

\* the run stopped in the timestep and at the component that raised: nothing
\* later in the order was evaluated in that pass, no State was committed
C17_Aborted ==
    EvaluateFailed =>
        /\ run.failure.timestep = run.t
        /\ ghost.timestep = run.t
        /\ built.order[run.idx] = run.failure.component
        /\ \A k \in DOMAIN built.order :
             LET c == built.order[k]
                 finalizing == ghost.final_evaluations[run.failure.component] = 1
             IN /\ k > run.idx =>
                     /\ ghost.evaluations[c] = run.passes
                     /\ ghost.final_evaluations[c] = 0
                /\ k < run.idx =>
                     /\ ghost.evaluations[c] = IF finalizing THEN run.passes
                                                ELSE run.passes + 1
                     /\ ghost.final_evaluations[c] = IF finalizing THEN 1 ELSE 0
                /\ ghost.commits[c] = 0
                /\ CommittedState(c, comp[c]) = ghost.committed[c]
        /\ ghost.checked = {}

\* nothing follows a failed evaluation
C17_NothingAfter == ~EvaluateFailed

\* after a failed evaluation the run aborts where it is (the part of C17
\* that the driver guarantees)
C17_RunAbortsAtFailedEvaluate ==
    [](C17_Aborted) /\ [][C17_NothingAfter]_vars

\* the evaluation that raised left the slab as it found it
C17_NothingWritten ==
    EvaluateFailed' => slab' = slab

\* C17: a component that raises during an evaluation pass of timestep t
\* aborts the run in t: no component later in the order is evaluated in that
\* pass, no State is committed for t, no later timestep runs, and the failing
\* evaluation has written none of its Output slots.
C17_FailedEvaluateAbortsAndWritesNothing ==
    [](C17_Aborted) /\ [][C17_NothingAfter /\ C17_NothingWritten]_vars

\* the Finalize pass of the timestep is over
Finalized ==
    /\ Running
    /\ run.phase \in {"doublecheck", "commit"}

\* C18: after the Finalize pass of a timestep every Output slot holds a value
\* its owner wrote during that timestep, also the slots of the components
\* that write nothing when force_convergence is true: no slot keeps a value
\* of an earlier timestep or the initial value of the slab.
C18_SlotsWrittenInTimestep ==
    Finalized => \A k \in DOMAIN slab : ghost.written[k] = run.t

\* C18 witness: the second timestep is finalized in a household with the
\* HeatDistributionController, or with the L2_Controller, whose evaluations
\* write nothing in the Finalize pass
C18_Witness ==
    /\ Finalized
    /\ run.t = 1
    /\ \E c \in {HDC, L2C} :
         /\ c \in Range(registered)
         /\ ghost.final_evaluations[c] = 1
         /\ \A o \in Range(Outputs(c)) : ghost.written[Slot(c, o)] = 1

\* the run of the household with the three-component cycle
Feedback == Running /\ registered = FeedbackHousehold.registered

\* the fixed point of sum = demand + sum / divisor, computed by hand
FixedPoint(demand, divisor) ==
    CHOOSE x \in 0 .. 2 * demand : x = demand + x \div divisor

\* C19: in the household whose three-component cycle has a contractive update
\* every timestep takes more than one Iterate pass, the convergence check is
\* satisfied within the iteration cap, and the cyclic slots are committed with
\* the values of the fixed point of the update (tolerance 0).
C19_ContractiveCycleConverges ==
    Feedback =>
        /\ ~ghost.unconverged
        /\ run.degraded = {}
        /\ run.failure.phase # "convergence"
        /\ (Finalized \/ run.phase = "finalize") => run.passes > 1 /\ run.passes <= IterationCap
        /\ Finalized =>
             LET demand == slab[Slot(BLD, "TheoreticalThermalBuildingDemand")]
                 divisor == slab[Slot(BLD, "InitialInternalTemperature")]
                 x == FixedPoint(demand, divisor)
             IN /\ slab[Slot(SUM, "Sum")] = x
                /\ slab[Slot(CALC, "Output")] = x \div divisor
                /\ slab[Slot(SUM3, "Sum")] = x \div divisor

\* C19 witness: the cycle took all the passes the cap allows to reach the
\* fixed point 526 = 500 + 526 / 20, and the timestep is being committed
C19_Witness ==
    /\ Feedback
    /\ run.phase = "commit"
    /\ run.passes = 4
    /\ slab[Slot(SUM, "Sum")] = 526
    /\ slab[Slot(SUM3, "Sum")] = 26

\* the Battery is about to be committed: its current State is what the
\* commit will store, ghost.committed holds what the last commit stored
BatteryToBeCommitted ==
    /\ Running
    /\ BAT \in Range(registered)
    /\ run.phase = "commit"
    /\ ghost.commits[BAT] = 0

\* one evaluation of the Battery from its committed State, with the inputs
\* its last evaluation of the timestep read
OneEvaluationOfBattery ==
    BAT_i_simulate([state |-> ghost.committed[BAT], previous_state |-> ghost.committed[BAT]],
                   ghost.inputs[BAT],
                   BAT_simulate(ghost.inputs[BAT].LoadingPowerInput,
                                ghost.committed[BAT].soc, seconds_per_timestep),
                   TRUE).self.state

C20_StateOfChargeMovedInEveryPass ==
    (BatteryToBeCommitted /\ run.t = 0 /\ ghost.inputs[BAT].LoadingPowerInput = 526)
        => comp[BAT].state.soc = 10 * (run.passes + 1)

(***************************************************************************)
(* Claims about the Shared Context Store (SpecRepository).                 *)
(***************************************************************************)
\* the successful set operations on the key of operation i that precede it
EarlierSet(i) ==
    { j \in 1 .. i - 1 :
        /\ process.log[j].op = "set"
        /\ process.log[j].key = process.log[i].key
        /\ ~process.log[j].raised }

C15_GetAndSet ==
    \A i \in DOMAIN process.log :
        LET e == process.log[i]
        IN /\ e.op = "get" =>
                /\ e.raised <=> EarlierSet(i) = {}
                /\ ~e.raised => \A j \in EarlierSet(i) : process.log[j].value = e.value
           /\ e.op = "set" => (e.raised <=> EarlierSet(i) # {})

C15_Constructors ==
    /\ (/\ process'.constructed = Append(process.constructed, "HeatDistribution")
        /\ ~exist_entry(singleton_sim_repository, MAXTHERMALBUILDINGDEMAND))
           => (process'.raised /\ singleton_sim_repository' = singleton_sim_repository)
    /\ (/\ process'.constructed = Append(process.constructed, HDC)
        /\ exist_entry(singleton_sim_repository, SETHEATINGTEMPERATUREFORBUILDING))
           => (process'.raised /\ singleton_sim_repository' = singleton_sim_repository)

C16_RunsShareNoStoreState ==
    /\ process.constructed = << >> => singleton_sim_repository = EmptyStore
    /\ process.raised = process.raised_alone

====
